---- MODULE Spec2Model ----
(***************************************************************************)
(* CORDIC console demonstration (cordic_functions.c, main.c).               *)
(*                                                                         *)
(* The menu loop run_cordic_functions, the ten operation handlers, the      *)
(* range validator check_range and the float/fixed-point conversion         *)
(* macros.  Operands are IEEE binary32 values (float32_t), kept exactly as  *)
(* sign, 24-bit mantissa and exponent.  The CORDIC peripheral and the math  *)
(* library are external: what they return is kept as an uninterpreted term  *)
(* naming the primitive and the operands it was given.                      *)
(***************************************************************************)
EXTENDS Integers, Sequences, FiniteSets, TLC

(***************************************************************************)
(* Bounds of the model.                                                     *)
(***************************************************************************)
\* menu iterations (selector reads) the console supplies input for
MaxIter == 2
\* selector tokens offered are "0" .. "MaxSelector" (and a few others)
MaxSelector == 10

(***************************************************************************)
(* Console tokens.  scanf("%120s") yields one whitespace-delimited token,   *)
(* or fails (EOF).  A token is a decimal numeral sign n/d (d a power of     *)
(* ten), the text "nan", or some other text that is no numeral.             *)
(***************************************************************************)
Dec(neg, n, d) == [kind |-> "num", neg |-> neg, n |-> n, d |-> d]
Int2Dec(i) == IF i < 0 THEN Dec(TRUE, -i, 1) ELSE Dec(FALSE, i, 1)
TokText == [kind |-> "text", neg |-> FALSE, n |-> 0, d |-> 1]
TokNaN == [kind |-> "nan", neg |-> FALSE, n |-> 0, d |-> 1]

TokEmpty == [kind |-> "empty", neg |-> FALSE, n |-> 0, d |-> 1]

(***************************************************************************)
(* IEEE binary32.  A finite value is (-1)^neg * m * 2^e with m = 0 (zero,   *)
(* e = 0) or 2^23 <= m < 2^24; nan marks a NaN.                             *)
(***************************************************************************)
Pow2(k) == 2^k
TwoP23 == Pow2(23)
TwoP24 == Pow2(24)

F32(neg, m, e) == [nan |-> FALSE, neg |-> neg, m |-> m, e |-> e]
F32Zero == F32(FALSE, 0, 0)
F32NaN == [nan |-> TRUE, neg |-> FALSE, m |-> 0, e |-> 0]

\* round-to-nearest-even of (m + r/d) * 2^e, 0 <= r < d, to a 24-bit mantissa
RECURSIVE RoundBits(_, _, _, _)
RoundBits(m, r, d, e) ==
    IF m < TwoP23
    THEN IF 2 * r >= d
         THEN RoundBits(2 * m + 1, 2 * r - d, d, e - 1)
         ELSE RoundBits(2 * m, 2 * r, d, e - 1)
    ELSE LET up == (2 * r > d) \/ (2 * r = d /\ m % 2 = 1)
             m1 == IF up THEN m + 1 ELSE m
         IN  IF m1 = TwoP24 THEN [m |-> TwoP23, e |-> e + 1]
                            ELSE [m |-> m1, e |-> e]

\* the binary32 value nearest to the rational (-1)^neg * n / d  (n / d < 2^24)
RatToF32(neg, n, d) ==
    IF n = 0 THEN F32Zero
    ELSE LET r == RoundBits(n \div d, n % d, d, 0)
         IN  F32(neg, r.m, r.e)

\* an integer constant converted to float32_t (exact for |i| < 2^24)
IntToF32(i) == IF i < 0 THEN RatToF32(TRUE, -i, 1) ELSE RatToF32(FALSE, i, 1)

\* a < b on binary32: every comparison with a NaN is false
MagLt(a, b) ==
    IF a.m = 0 THEN b.m # 0
    ELSE b.m # 0 /\ (a.e < b.e \/ (a.e = b.e /\ a.m < b.m))
F32Lt(a, b) ==
    IF a.nan \/ b.nan THEN FALSE
    ELSE IF a.neg /\ ~b.neg THEN TRUE
    ELSE IF ~a.neg /\ b.neg THEN FALSE
    ELSE IF a.neg THEN MagLt(b, a)
    ELSE MagLt(a, b)
F32Le(a, b) == ~a.nan /\ ~b.nan /\ ~F32Lt(b, a)
F32IsZero(a) == ~a.nan /\ a.m = 0

(***************************************************************************)
(* atoi / atof on the token read.                                           *)
(***************************************************************************)
\* atoi: the leading integer part of a numeral, 0 for any other text
atoi(t) ==
    IF t.kind = "num"
    THEN (IF t.neg THEN -(t.n \div t.d) ELSE t.n \div t.d)
    ELSE 0

\* atof, narrowed to float32_t by the assignment that receives it
atof(t) ==
    IF t.kind = "num" THEN RatToF32(t.neg /\ t.n # 0, t.n, t.d)
    ELSE IF t.kind = "nan" THEN F32NaN
    ELSE F32Zero

(***************************************************************************)
(* Products.  TLC's integers are 32 bits wide, so a 48-bit product of two   *)
(* 24-bit mantissas is formed from 12-bit halves and kept as a pair         *)
(* hi * 2^24 + lo.                                                          *)
(***************************************************************************)
TwoP12 == Pow2(12)

Mul24(a, c) ==
    LET a1 == a \div TwoP12   a0 == a % TwoP12
        c1 == c \div TwoP12   c0 == c % TwoP12
        cross == a1 * c0 + a0 * c1
        low == (cross % TwoP12) * TwoP12 + a0 * c0
    IN  [hi |-> a1 * c1 + cross \div TwoP12 + low \div TwoP24,
         lo |-> low % TwoP24]

\* round-to-nearest-even of m + (r / 2^k), 2^23 <= m < 2^24, into m * 2^e
RoundHalf(m, r, k, e) ==
    LET half == Pow2(k - 1)
        up == r > half \/ (r = half /\ m % 2 = 1)
        m1 == IF up THEN m + 1 ELSE m
    IN  IF m1 = TwoP24 THEN [m |-> TwoP23, e |-> e + 1] ELSE [m |-> m1, e |-> e]

\* x * y in binary32 arithmetic (both finite), rounded to nearest even
F32Mul(x, y) ==
    IF x.nan \/ y.nan THEN F32NaN
    ELSE IF x.m = 0 \/ y.m = 0 THEN F32Zero
    ELSE LET p == Mul24(x.m, y.m)
             r == IF p.hi >= TwoP23
                  THEN RoundHalf(p.hi, p.lo, 24, x.e + y.e + 24)
                  ELSE RoundHalf(2 * p.hi + p.lo \div TwoP23, p.lo % TwoP23, 23,
                                 x.e + y.e + 23)
         IN  F32(x.neg # y.neg, r.m, r.e)

(***************************************************************************)
(* A float64_t constant is hi * 2^29 + lo (53 bits: hi of 24, lo of 29)     *)
(* times 2^e.  x * c is computed in double and rounded to nearest even,     *)
(* and the assignment to a float32_t rounds it once more.                   *)
(***************************************************************************)
\* the exact 77-bit product a * (c.hi * 2^29 + c.lo) as top * 2^48 + mid * 2^24 + t0
WideProduct(a, c) ==
    LET ph == Mul24(a, c.hi)
        pl == Mul24(a, c.lo % TwoP24)
        mid0 == a * (c.lo \div TwoP24) + pl.hi + ph.lo * 32
    IN  [top |-> ph.hi * 32 + mid0 \div TwoP24, mid |-> mid0 % TwoP24, t0 |-> pl.lo]

\* the product cut into its leading 24 bits m, the 29 bits d29 after them, and
\* the rest below (of k bits); e is the exponent of the 53-bit double m:d29
SplitWide(p) ==
    IF p.top >= Pow2(28)
    THEN [m |-> p.top \div 32, d29 |-> (p.top % 32) * TwoP24 + p.mid,
          rest |-> p.t0, k |-> 24, e |-> 24]
    ELSE [m |-> p.top \div 16, d29 |-> (p.top % 16) * Pow2(25) + 2 * p.mid + p.t0 \div TwoP23,
          rest |-> p.t0 % TwoP23, k |-> 23, e |-> 23]

\* first rounding, to the 53 bits of a double: m:d29 plus one when rest rounds up
RoundToDouble(s) ==
    LET half == Pow2(s.k - 1)
        up == s.rest > half \/ (s.rest = half /\ s.d29 % 2 = 1)
    IN  IF ~up THEN [m |-> s.m, d29 |-> s.d29, e |-> s.e]
        ELSE IF s.d29 + 1 < Pow2(29) THEN [m |-> s.m, d29 |-> s.d29 + 1, e |-> s.e]
        ELSE IF s.m + 1 < TwoP24 THEN [m |-> s.m + 1, d29 |-> 0, e |-> s.e]
        ELSE [m |-> TwoP23, d29 |-> 0, e |-> s.e + 1]

\* second rounding, to the 24 bits of a float
RoundToFloat(d) == RoundHalf(d.m, d.d29, 29, d.e + 29)

F32MulDbl(x, c) ==
    IF x.nan THEN F32NaN
    ELSE IF x.m = 0 THEN F32Zero
    ELSE CHOOSE f \in
           { F32(x.neg # c.neg, r.m, r.e + x.e + c.e) :
               r \in { RoundToFloat(d) :
                 d \in { RoundToDouble(s) :
                   s \in { SplitWide(p) : p \in {WideProduct(x.m, c)} } } } } : TRUE

(***************************************************************************)
(* (int32_t) of a float: truncation toward zero.  A NaN or a value outside  *)
(* [-2^31, 2^31 - 1] is undefined behaviour: the result is whatever the     *)
(* conversion instruction or routine of the build leaves, a saturated       *)
(* value (zero for a NaN) or the "integer indefinite" value -2^31.          *)
(***************************************************************************)
INT32_MAX == 2147483647
INT32_MIN == -2147483647 - 1

\* the value fits int32_t
F32FitsI32(x) ==
    /\ ~x.nan
    /\ \/ x.m = 0
       \/ x.e < 8
       \/ (x.e = 8 /\ x.neg /\ x.m = TwoP23)


\* the cast with the fraction dropped toward minus infinity
F32Floor(x) ==
    IF x.m = 0 THEN 0
    ELSE IF x.e = 8 THEN INT32_MIN
    ELSE LET mag == IF x.e >= 0 THEN x.m * Pow2(x.e)
                    ELSE IF x.e <= -24 THEN (IF x.neg THEN 1 ELSE 0)
                    ELSE IF x.neg /\ x.m % Pow2(-x.e) # 0 THEN x.m \div Pow2(-x.e) + 1
                    ELSE x.m \div Pow2(-x.e)
         IN  IF x.neg THEN -mag ELSE mag

F32Trunc(x) ==
    IF x.m = 0 THEN 0
    ELSE IF x.e = 8 THEN INT32_MIN
    ELSE LET mag == IF x.e >= 0 THEN x.m * Pow2(x.e)
                    ELSE IF x.e <= -24 THEN 0
                    ELSE x.m \div Pow2(-x.e)
         IN  IF x.neg THEN -mag ELSE mag

CastI32(x) ==
    IF F32FitsI32(x) THEN {F32Trunc(x)}
    ELSE IF x.nan THEN {0, INT32_MIN}
    ELSE IF x.neg THEN {INT32_MIN}
    ELSE {INT32_MAX, INT32_MIN}

(***************************************************************************)
(* Integer constants too wide for a 32-bit integer are hi * 2^16 + lo.      *)
(***************************************************************************)
TwoP16 == Pow2(16)
LL(hi, lo) == [hi |-> hi, lo |-> lo]

\* integer division of a wide constant by a small one
LLDiv(w, k) ==
    LL(w.hi \div k, ((w.hi % k) * TwoP16 + w.lo) \div k)

\* the wide integer converted to float32_t (to nearest even), w < 2^32
LLToF32(w) ==
    IF w.hi < Pow2(8) THEN IntToF32(w.hi * TwoP16 + w.lo)
    ELSE IF w.hi >= Pow2(15)
    THEN LET r == RoundHalf(w.hi * Pow2(8) + w.lo \div Pow2(8), w.lo % Pow2(8), 8, 8)
         IN  F32(FALSE, r.m, r.e)
    ELSE LET v == w.hi * TwoP16 + w.lo
             k == CHOOSE j \in 1..7 : v \div Pow2(j) >= TwoP23 /\ v \div Pow2(j) < TwoP24
             r == RoundHalf(v \div Pow2(k), v % Pow2(k), k, k)
         IN  F32(FALSE, r.m, r.e)

(***************************************************************************)
(* Macros of cordic_functions.c.                                            *)
(***************************************************************************)
Ifx_CORDIC_PARK_TRANS == 0
Ifx_CORDIC_SINE == 1
Ifx_CORDIC_COSINE == 2
Ifx_CORDIC_TAN == 3
Ifx_CORDIC_ARC_TAN == 4
Ifx_CORDIC_HYP_SINE == 5
Ifx_CORDIC_HYP_COSINE == 6
Ifx_CORDIC_HYP_TAN == 7
Ifx_CORDIC_HYP_ARC_TAN == 8
Ifx_CORDIC_SQRT == 9

Q31_MULTIPLIER == LL(32768, 0)
Q30_MULTIPLIER == LL(16384, 0)
Q23_MULTIPLIER == LL(127, 65535)
Q11_MULTIPLIER == LL(0, 2048)
Q8_MULTIPLIER == LL(0, 256)

\* 3.141592654/180 and 127.99 as the float64_t values the compiler folds them to
DEG_RAD_MULTIPLIER == [neg |-> FALSE, hi |-> 9370165, lo |-> 39625489, e |-> -58]
ATAN_TANH_IN_SCALING == [neg |-> FALSE, hi |-> 16775905, lo |-> 150323855, e |-> -46]

IN_PARK_ANGLE_MAX == 90
IN_PARK_ANGLE_MIN == -90
IN_SIN_COS_MAX == 90
IN_SIN_COS_MIN == -90
IN_TAN_MAX == 89
IN_TAN_MIN == -89
IN_ATAN_MAX == 57
IN_ATAN_MIN == -57
IN_HYP_SIN_COS_TAN_MAX == 60
IN_HYP_SIN_COS_TAN_MIN == -60
\* (0.8) and (-0.8), converted to the float32_t parameter of check_range
IN_ATANH_MAX == RatToF32(FALSE, 8, 10)
IN_ATANH_MIN == RatToF32(TRUE, 8, 10)

FLOAT_DEG_TO_RAD(x) == F32MulDbl(x, DEG_RAD_MULTIPLIER)
\* the three float-to-fixed macros: the set of values the cast can leave
FLOAT_DEG_TO_RAD_Q31(x) == CastI32(F32Mul(x, LLToF32(LLDiv(Q31_MULTIPLIER, 180))))
FLOAT_TO_Q31(x) == CastI32(F32Mul(x, LLToF32(Q31_MULTIPLIER)))
FLOAT_TO_Q8_23(x) == CastI32(F32Mul(x, LLToF32(Q8_MULTIPLIER)))

(***************************************************************************)
(* Values that come back from the CORDIC block or the math library are      *)
(* terms: the primitive and what it was applied to.                         *)
(***************************************************************************)
Term(fn, args) == [fn |-> fn, args |-> args]
Lit0 == Term("0", <<>>)
I32(n) == [i32 |-> n]

Q31_TO_FLOAT(x) == Term("/", <<x, Q31_MULTIPLIER>>)
Q1_30_TO_FLOAT(x) == Term("/", <<x, Q30_MULTIPLIER>>)
Q23_TO_FLOAT(x) == Term("/", <<x, Q23_MULTIPLIER>>)
Q20_11_TO_FLOAT(x) == Term("/", <<x, Q11_MULTIPLIER>>)
Q31_TO_DEG_FLOAT(x) == Term("*", <<x, Term("/", <<Term("3.141592654", <<>>), Q31_MULTIPLIER>>)>>)
FLOAT_RAD_TO_DEG(x) == Term("*", <<x, Term("180/3.141592654", <<>>)>>)
CORDIC_CIRCULAR_GAIN == Term("1.646760258121", <<>>)
\* FLOAT_TO_Q31 applied to a math-library result
FLOAT_TO_Q31_OF(x) == Term("(CY_CORDIC_Q31_t)*", <<x, Q31_MULTIPLIER>>)

(***************************************************************************)
(* check_range: the status returned and what it prints.                     *)
(***************************************************************************)
Printf(text, vals) == [ev |-> "printf", text |-> text, vals |-> vals]
Call(fn, vals) == [ev |-> "call", text |-> fn, vals |-> vals]

MSG_NOT_IN_RANGE == "Entered number is not in range."
MSG_ZERO == "Entered number is 0."
MSG_WRONG_OPTION == "Wrong option selected. Please try again..."

\* check_range that prints the diagnostic and leaves return_val at its
\* initial CY_CORDIC_SUCCESS
check_range_status_not_set(low_limit, high_limit, value) ==
    IF F32Lt(value, low_limit) \/ F32Lt(high_limit, value)
    THEN [return_val |-> "CY_CORDIC_SUCCESS", out |-> <<Printf(MSG_NOT_IN_RANGE, <<>>)>>]
    ELSE [return_val |-> "CY_CORDIC_SUCCESS", out |-> <<>>]

\* check_range with both limits excluded: >= and <= in place of > and <
check_range_limits_excluded(low_limit, high_limit, value) ==
    IF (~F32Lt(low_limit, value)) \/ (~F32Lt(value, high_limit))
    THEN [return_val |-> "CY_CORDIC_BAD_PARAM", out |-> <<Printf(MSG_NOT_IN_RANGE, <<>>)>>]
    ELSE [return_val |-> "CY_CORDIC_SUCCESS", out |-> <<>>]

check_range(low_limit, high_limit, value) ==
    IF F32Lt(value, low_limit) \/ F32Lt(high_limit, value)
    THEN [return_val |-> "CY_CORDIC_BAD_PARAM", out |-> <<Printf(MSG_NOT_IN_RANGE, <<>>)>>]
    ELSE [return_val |-> "CY_CORDIC_SUCCESS", out |-> <<>>]

\* an operand read that returned a token, with the range check made on it
ReadOk(tok, low_limit, high_limit, value, chk) ==
    [status |-> 1, tok |-> tok, low |-> low_limit, high |-> high_limit,
     value |-> value, ret |-> chk.return_val, printed |-> chk.out]
\* an operand read that returned no token
ReadEof ==
    [status |-> -1, tok |-> TokEmpty, low |-> F32Zero, high |-> F32Zero,
     value |-> F32Zero, ret |-> "none", printed |-> <<>>]

(***************************************************************************)
(* State.                                                                   *)
(***************************************************************************)
VARIABLES
    pc,               \* where the program is blocked: a read or the busy poll
    iter,             \* selector reads made so far
    out,              \* console output and external calls of this iteration
    g0,               \* the globals as they were when the menu was printed
    reads,            \* the operand reads of this iteration and their range checks
    read_string, read_status, cordic_function,
    angle_deg, ialpha, ibeta, angle_rad, numerator, denominator,
    result_doub, result_q31, result_1q30, result_20q11,
    angle_q31, numerator_8q23, denominator_8q23,
    i_alpha_q31, i_beta_q31,      \* locals of park_transform, live across the poll
    cordic_busy, cordic_regs,     \* the CORDIC block: busy flag, operands loaded
    boot,             \* the calls main has made, each with the status it returned
    f32_in, q31_val, f32_out      \* a float32_t, its Q31 image, the image read back

io == <<read_string, read_status>>
operands == <<angle_deg, ialpha, ibeta, angle_rad, numerator, denominator>>
fixed == <<angle_q31, numerator_8q23, denominator_8q23>>
results == <<result_doub, result_q31, result_1q30, result_20q11>>
park_locals == <<i_alpha_q31, i_beta_q31>>
cordic == <<cordic_busy, cordic_regs>>
harness == <<f32_in, q31_val, f32_out>>
vars == <<pc, iter, out, g0, reads, io, cordic_function, operands, fixed, results,
          park_locals, cordic, boot, harness>>

Globals ==
    [read_string |-> read_string, read_status |-> read_status,
     cordic_function |-> cordic_function,
     angle_deg |-> angle_deg, ialpha |-> ialpha, ibeta |-> ibeta,
     angle_rad |-> angle_rad, numerator |-> numerator, denominator |-> denominator,
     result_doub |-> result_doub, result_q31 |-> result_q31,
     result_1q30 |-> result_1q30, result_20q11 |-> result_20q11,
     angle_q31 |-> angle_q31, numerator_8q23 |-> numerator_8q23,
     denominator_8q23 |-> denominator_8q23]

(***************************************************************************)
(* main: the statements of its body in order.  A step that returns a       *)
(* status is followed by handle_error on that status.                       *)
(***************************************************************************)
\* main with the CORDIC left disabled
MainBodyWithoutEnable ==
    <<"cybsp_init", "handle_error",
      "Cy_SCB_UART_Init", "handle_error", "Cy_SCB_UART_Enable",
      "mtb_hal_uart_setup", "handle_error",
      "cy_retarget_io_init", "handle_error",
      "__enable_irq", "run_cordic_functions">>

MainBody ==
    <<"cybsp_init", "handle_error", "Cy_CORDIC_Enable",
      "Cy_SCB_UART_Init", "handle_error", "Cy_SCB_UART_Enable",
      "mtb_hal_uart_setup", "handle_error",
      "cy_retarget_io_init", "handle_error",
      "__enable_irq", "run_cordic_functions">>

\* the steps whose status main hands to handle_error
InitSteps == {"cybsp_init", "Cy_SCB_UART_Init", "mtb_hal_uart_setup", "cy_retarget_io_init"}
\* the steps that return nothing
VoidSteps == {"Cy_CORDIC_Enable", "Cy_SCB_UART_Enable", "__enable_irq"}

CY_RSLT_SUCCESS == "CY_RSLT_SUCCESS"
\* every status other than CY_RSLT_SUCCESS
CY_RSLT_FAILED == "failed"

Step(fn, status) == [fn |-> fn, status |-> status]

\* main's record when every step has succeeded and run_cordic_functions is entered
BootOk ==
    [i \in DOMAIN MainBody |->
        Step(MainBody[i], IF MainBody[i] \in InitSteps THEN CY_RSLT_SUCCESS ELSE "void")]

\* the globals at program start, and the model's own records
Entry ==
    /\ out = <<>>
    /\ reads = <<>>
    /\ read_string = TokEmpty
    /\ read_status = 0
    /\ cordic_function = Ifx_CORDIC_PARK_TRANS
    /\ angle_deg = F32Zero /\ ialpha = F32Zero /\ ibeta = F32Zero
    /\ angle_rad = F32Zero /\ numerator = F32Zero /\ denominator = F32Zero
    /\ result_doub = Lit0 /\ result_q31 = Lit0
    /\ result_1q30 = Lit0 /\ result_20q11 = Lit0
    /\ angle_q31 = 0 /\ numerator_8q23 = 0 /\ denominator_8q23 = 0
    /\ i_alpha_q31 = 0 /\ i_beta_q31 = 0
    /\ cordic_busy = FALSE /\ cordic_regs = <<>>
    /\ g0 = Globals

HarnessIdle == f32_in = F32Zero /\ q31_val = 0 /\ f32_out = F32Zero

\* run_cordic_functions has just been entered from main
Init ==
    /\ pc = "menu"
    /\ iter = 0
    /\ Entry
    /\ boot = BootOk
    /\ HarnessIdle

(***************************************************************************)
(* What the console supplies at each prompt.                                *)
(***************************************************************************)
Edge(n) == {Int2Dec(-(n + 1)), Int2Dec(-n), Int2Dec(n), Int2Dec(n + 1)}
NonNumbers == {TokText, TokNaN}

SelectorTokens ==
    {Int2Dec(k) : k \in 0..MaxSelector} \cup {Int2Dec(42), Int2Dec(-1)} \cup NonNumbers
DegreeTokens(n) ==
    Edge(n) \cup NonNumbers \cup {Dec(FALSE, n * 1000000 + 1, 1000000)}
UnitTokens == Edge(1) \cup NonNumbers
AtanhTokens ==
    {Dec(TRUE, 9, 10), Dec(TRUE, 8, 10), Dec(FALSE, 8, 10), Dec(FALSE, 9, 10),
     Dec(FALSE, 80000001, 100000000), Int2Dec(0)} \cup NonNumbers
SqrtTokens ==
    {Int2Dec(-1), Int2Dec(0), Dec(FALSE, 25, 100), Dec(FALSE, 99999999, 100000000),
     Int2Dec(1), Int2Dec(2)} \cup NonNumbers

\* scanf("%120s", read_string): a token and 1, or no token and EOF
Scanf(tokens) ==
    {[status |-> 1, tok |-> t] : t \in tokens} \cup {[status |-> -1, tok |-> TokEmpty]}

(***************************************************************************)
(* The conversions, tabulated over the values the console can supply, so    *)
(* that each is evaluated once: Atof[t] = atof(t), ToQ31[x] =                *)
(* FLOAT_TO_Q31(x), and so on.                                              *)
(***************************************************************************)
\* a float64_t constant stored to a float32_t
DblToF32(c) == F32MulDbl(IntToF32(1), c)

OperandTokens ==
    DegreeTokens(IN_PARK_ANGLE_MAX) \cup DegreeTokens(IN_SIN_COS_MAX) \cup
    DegreeTokens(IN_TAN_MAX) \cup DegreeTokens(IN_ATAN_MAX) \cup
    DegreeTokens(IN_HYP_SIN_COS_TAN_MAX) \cup UnitTokens \cup AtanhTokens \cup SqrtTokens
Atof == [t \in OperandTokens |-> atof(t)]
OperandValues == {Atof[t] : t \in OperandTokens}

DegToRad == [x \in OperandValues |-> FLOAT_DEG_TO_RAD(x)]
DegToRadQ31 == [x \in OperandValues |-> FLOAT_DEG_TO_RAD_Q31(x)]
\* x * Q31_MULTIPLIER, the float32_t product that FLOAT_TO_Q31 casts
Q31Product == [x \in OperandValues |-> F32Mul(x, LLToF32(Q31_MULTIPLIER))]
ToQ31 == [x \in OperandValues |-> FLOAT_TO_Q31(x)]
\* numerator = read value * ATAN_TANH_IN_SCALING, denominator = ATAN_TANH_IN_SCALING
Scaled == [x \in OperandValues |-> F32MulDbl(x, ATAN_TANH_IN_SCALING)]
Scaling == DblToF32(ATAN_TANH_IN_SCALING)
ToQ8_23 == [y \in {Scaled[x] : x \in OperandValues} \cup {Scaling} |-> FLOAT_TO_Q8_23(y)]

\* the limits as check_range receives them, converted to float32_t
Q8Product ==
    [y \in {Scaled[x] : x \in OperandValues} \cup {Scaling} |->
        F32Mul(y, LLToF32(Q8_MULTIPLIER))]
Limit ==
    [i \in {IN_PARK_ANGLE_MIN, IN_PARK_ANGLE_MAX, IN_SIN_COS_MIN, IN_SIN_COS_MAX,
            IN_TAN_MIN, IN_TAN_MAX, IN_ATAN_MIN, IN_ATAN_MAX,
            IN_HYP_SIN_COS_TAN_MIN, IN_HYP_SIN_COS_TAN_MAX, -1, 0, 1} |-> IntToF32(i)]

(***************************************************************************)
(* run_cordic_functions: the menu and the dispatch.                         *)
(***************************************************************************)
\* the menu lines "k - <label>", k = 0 .. 9, in the order printed
MenuLabels ==
    <<"park transform", "sine", "cosine", "tangent", "arc tangent",
      "hyperbolic sine", "hyperbolic cosine", "hyperbolic tangent",
      "hyperbolic arc tangent", "square root">>

Handlers ==
    {"park_transform", "sine", "cosine", "tangent", "arc_tangent",
     "hyperbolic_sine", "hyperbolic_cosine", "hyperbolic_tangent",
     "hyperbolic_arc_tangent", "square_root"}

\* the first two printf of each handler: what it announces, what it asks for
Announce ==
    [park_transform |-> "park transform", sine |-> "sine", cosine |-> "cosine",
     tangent |-> "tangent", arc_tangent |-> "arc tangent",
     hyperbolic_sine |-> "hyperbolic sine", hyperbolic_cosine |-> "hyperbolic cosine",
     hyperbolic_tangent |-> "hyperbolic tangent",
     hyperbolic_arc_tangent |-> "hyperbolic arc tangent",
     square_root |-> "square root"]
Prompt ==
    [park_transform |-> "Enter angle in degree (between -90 and 90):",
     sine |-> "Enter the angle in degree(between -90 and 90):",
     cosine |-> "Enter the angle in degree(between -90 and 90):",
     tangent |-> "Enter the angle in degree (between -89 and 89):",
     arc_tangent |-> "Enter the value(between -57 and 57):",
     hyperbolic_sine |-> "Enter the angle in degree (between -60 and 60):",
     hyperbolic_cosine |-> "Enter the angle in degree (between -60 and 60):",
     hyperbolic_tangent |-> "Enter the angle in degree (between -60 and 60):",
     hyperbolic_arc_tangent |-> "Enter the value(between -0.8 and 0.8):",
     square_root |-> "Enter the value above 0 and below 1:"]
PROMPT_ALPHA == "Enter i alpha (between -1 and 1):"
PROMPT_BETA == "Enter i beta (between -1 and 1):"

Enter(h) ==
    <<Call(h, <<>>), Printf("Selected option -", <<Announce[h]>>), Printf(Prompt[h], <<>>)>>

\* the switch with the bodies of two neighbouring cases exchanged
DispatchCasesExchanged(f) ==
    CASE f = Ifx_CORDIC_PARK_TRANS -> "park_transform"
      [] f = Ifx_CORDIC_SINE -> "cosine"
      [] f = Ifx_CORDIC_COSINE -> "sine"
      [] f = Ifx_CORDIC_TAN -> "tangent"
      [] f = Ifx_CORDIC_ARC_TAN -> "arc_tangent"
      [] f = Ifx_CORDIC_HYP_SINE -> "hyperbolic_sine"
      [] f = Ifx_CORDIC_HYP_COSINE -> "hyperbolic_cosine"
      [] f = Ifx_CORDIC_HYP_TAN -> "hyperbolic_tangent"
      [] f = Ifx_CORDIC_HYP_ARC_TAN -> "hyperbolic_arc_tangent"
      [] f = Ifx_CORDIC_SQRT -> "square_root"
      [] OTHER -> "default"

\* the switch on cordic_function
Dispatch(f) ==
    CASE f = Ifx_CORDIC_PARK_TRANS -> "park_transform"
      [] f = Ifx_CORDIC_SINE -> "sine"
      [] f = Ifx_CORDIC_COSINE -> "cosine"
      [] f = Ifx_CORDIC_TAN -> "tangent"
      [] f = Ifx_CORDIC_ARC_TAN -> "arc_tangent"
      [] f = Ifx_CORDIC_HYP_SINE -> "hyperbolic_sine"
      [] f = Ifx_CORDIC_HYP_COSINE -> "hyperbolic_cosine"
      [] f = Ifx_CORDIC_HYP_TAN -> "hyperbolic_tangent"
      [] f = Ifx_CORDIC_HYP_ARC_TAN -> "hyperbolic_arc_tangent"
      [] f = Ifx_CORDIC_SQRT -> "square_root"
      [] OTHER -> "default"

\* the printf("\r\n\r\n") that ends an iteration of the loop
EndIter(o) == o \o <<Printf("\\r\\n\\r\\n", <<>>)>>

\* top of the for(;;) loop: the menu is printed and the selector awaited
print_menu ==
    /\ pc = "menu"
    /\ pc' = "select"
    /\ out' = <<Printf("PDL: CORDIC", MenuLabels)>>
    /\ g0' = Globals
    /\ reads' = <<>>
    /\ UNCHANGED <<boot, harness>>
    /\ UNCHANGED <<iter, io, cordic_function, operands, fixed, results,
                   park_locals, cordic>>

\* the loop with a default case that also clears the last results
run_cordic_functions_default_clears ==
    /\ pc = "select"
    /\ iter < MaxIter
    /\ iter' = iter + 1
    /\ \E rd \in Scanf(SelectorTokens) :
         /\ read_status' = rd.status
         /\ IF 0 < rd.status
            THEN LET h == Dispatch(atoi(rd.tok))
                 IN  /\ read_string' = rd.tok
                     /\ cordic_function' = atoi(rd.tok)
                     /\ IF h = "default"
                        THEN /\ out' = EndIter(out \o <<Printf(MSG_WRONG_OPTION, <<>>)>>)
                             /\ pc' = "menu"
                             /\ result_doub' = Lit0
                             /\ result_q31' = Lit0
                        ELSE /\ out' = out \o Enter(h)
                             /\ pc' = h
                             /\ UNCHANGED <<result_doub, result_q31>>
            ELSE /\ out' = EndIter(out)
                 /\ pc' = "menu"
                 /\ UNCHANGED <<read_string, cordic_function, result_doub, result_q31>>
    /\ UNCHANGED <<boot, harness>>
    /\ UNCHANGED <<g0, reads, operands, fixed, result_1q30, result_20q11,
                   park_locals, cordic>>

\* the selector is read and the switch taken, up to the handler's first read
run_cordic_functions ==
    /\ pc = "select"
    /\ iter < MaxIter
    /\ iter' = iter + 1
    /\ \E rd \in Scanf(SelectorTokens) :
         /\ read_status' = rd.status
         /\ IF 0 < rd.status
            THEN LET h == Dispatch(atoi(rd.tok))
                 IN  /\ read_string' = rd.tok
                     /\ cordic_function' = atoi(rd.tok)
                     /\ IF h = "default"
                        THEN /\ out' = EndIter(out \o <<Printf(MSG_WRONG_OPTION, <<>>)>>)
                             /\ pc' = "menu"
                        ELSE /\ out' = out \o Enter(h)
                             /\ pc' = h
            ELSE /\ out' = EndIter(out)
                 /\ pc' = "menu"
                 /\ UNCHANGED <<read_string, cordic_function>>
    /\ UNCHANGED <<boot, harness>>
    /\ UNCHANGED <<g0, reads, operands, fixed, results, park_locals, cordic>>

(***************************************************************************)
(* The handlers with one angle operand.                                     *)
(***************************************************************************)
\* sine with the conversions made before the range check is looked at
sine_converts_before_check ==
    /\ pc = "sine"
    /\ \E rd \in Scanf(DegreeTokens(IN_SIN_COS_MAX)) :
         /\ read_status' = rd.status
         /\ IF 0 < rd.status
            THEN LET x == Atof[rd.tok]
                     chk == check_range(Limit[IN_SIN_COS_MIN], Limit[IN_SIN_COS_MAX], x)
                 IN  /\ read_string' = rd.tok
                     /\ reads' = Append(reads,
                          ReadOk(rd.tok, Limit[IN_SIN_COS_MIN], Limit[IN_SIN_COS_MAX],
                                 x, chk))
                     /\ angle_deg' = x
                     /\ IF chk.return_val = "CY_CORDIC_SUCCESS"
                        THEN \E q \in DegToRadQ31[x] :
                               LET rad == DegToRad[x]
                                   hw == Term("Cy_CORDIC_Sin", <<q>>)
                                   sw == Term("sin", <<rad>>)
                               IN  /\ angle_rad' = rad
                                   /\ angle_q31' = q
                                   /\ result_q31' = hw
                                   /\ result_doub' = sw
                                   /\ out' = EndIter(out \o chk.out \o
                                        <<Call("Cy_CORDIC_Sin", <<q>>),
                                          Printf("Sine of the angle using CORDIC: %f.", <<Q31_TO_FLOAT(hw)>>),
                                          Call("sin", <<rad>>),
                                          Printf("Sine of the angle using math library: %f.", <<sw>>)>>)
                        ELSE /\ out' = EndIter(out \o chk.out)
                             /\ angle_rad' = DegToRad[x]
                             /\ angle_q31' \in DegToRadQ31[x]
                             /\ UNCHANGED <<result_q31, result_doub>>
            ELSE /\ out' = EndIter(out)
                 /\ reads' = Append(reads, ReadEof)
                 /\ UNCHANGED <<read_string, angle_deg, angle_rad, angle_q31,
                                result_q31, result_doub>>
    /\ pc' = "menu"
    /\ UNCHANGED <<boot, harness>>
    /\ UNCHANGED <<iter, g0, cordic_function, ialpha, ibeta, numerator, denominator,
                   result_1q30, result_20q11, numerator_8q23, denominator_8q23,
                   park_locals, cordic>>

sine ==
    /\ pc = "sine"
    /\ \E rd \in Scanf(DegreeTokens(IN_SIN_COS_MAX)) :
         /\ read_status' = rd.status
         /\ IF 0 < rd.status
            THEN LET x == Atof[rd.tok]
                     chk == check_range(Limit[IN_SIN_COS_MIN], Limit[IN_SIN_COS_MAX], x)
                 IN  /\ read_string' = rd.tok
                     /\ reads' = Append(reads,
                          ReadOk(rd.tok, Limit[IN_SIN_COS_MIN], Limit[IN_SIN_COS_MAX],
                                 x, chk))
                     /\ angle_deg' = x
                     /\ IF chk.return_val = "CY_CORDIC_SUCCESS"
                        THEN \E q \in DegToRadQ31[x] :
                               LET rad == DegToRad[x]
                                   hw == Term("Cy_CORDIC_Sin", <<q>>)
                                   sw == Term("sin", <<rad>>)
                               IN  /\ angle_rad' = rad
                                   /\ angle_q31' = q
                                   /\ result_q31' = hw
                                   /\ result_doub' = sw
                                   /\ out' = EndIter(out \o chk.out \o
                                        <<Call("Cy_CORDIC_Sin", <<q>>),
                                          Printf("Sine of the angle using CORDIC: %f.", <<Q31_TO_FLOAT(hw)>>),
                                          Call("sin", <<rad>>),
                                          Printf("Sine of the angle using math library: %f.", <<sw>>)>>)
                        ELSE /\ out' = EndIter(out \o chk.out)
                             /\ UNCHANGED <<angle_rad, angle_q31, result_q31, result_doub>>
            ELSE /\ out' = EndIter(out)
                 /\ reads' = Append(reads, ReadEof)
                 /\ UNCHANGED <<read_string, angle_deg, angle_rad, angle_q31,
                                result_q31, result_doub>>
    /\ pc' = "menu"
    /\ UNCHANGED <<boot, harness>>
    /\ UNCHANGED <<iter, g0, cordic_function, ialpha, ibeta, numerator, denominator,
                   result_1q30, result_20q11, numerator_8q23, denominator_8q23,
                   park_locals, cordic>>

\* cosine taking the cosine of what the CORDIC block returned
cosine_of_cordic_result ==
    /\ pc = "cosine"
    /\ \E rd \in Scanf(DegreeTokens(IN_SIN_COS_MAX)) :
         /\ read_status' = rd.status
         /\ IF 0 < rd.status
            THEN LET x == Atof[rd.tok]
                     chk == check_range(Limit[IN_SIN_COS_MIN], Limit[IN_SIN_COS_MAX], x)
                 IN  /\ read_string' = rd.tok
                     /\ reads' = Append(reads,
                          ReadOk(rd.tok, Limit[IN_SIN_COS_MIN], Limit[IN_SIN_COS_MAX],
                                 x, chk))
                     /\ angle_deg' = x
                     /\ IF chk.return_val = "CY_CORDIC_SUCCESS"
                        THEN \E q \in DegToRadQ31[x] :
                               LET rad == DegToRad[x]
                                   hw == Term("Cy_CORDIC_Cos", <<q>>)
                                   sw == Term("cos", <<Q31_TO_FLOAT(hw)>>)
                               IN  /\ angle_rad' = rad
                                   /\ angle_q31' = q
                                   /\ result_q31' = hw
                                   /\ result_doub' = sw
                                   /\ out' = EndIter(out \o chk.out \o
                                        <<Call("Cy_CORDIC_Cos", <<q>>),
                                          Printf("Cosine of the angle using CORDIC: %f.", <<Q31_TO_FLOAT(hw)>>),
                                          Call("cos", <<Q31_TO_FLOAT(hw)>>),
                                          Printf("Cosine of the angle using math library: %f.", <<sw>>)>>)
                        ELSE /\ out' = EndIter(out \o chk.out)
                             /\ UNCHANGED <<angle_rad, angle_q31, result_q31, result_doub>>
            ELSE /\ out' = EndIter(out)
                 /\ reads' = Append(reads, ReadEof)
                 /\ UNCHANGED <<read_string, angle_deg, angle_rad, angle_q31,
                                result_q31, result_doub>>
    /\ pc' = "menu"
    /\ UNCHANGED <<boot, harness>>
    /\ UNCHANGED <<iter, g0, cordic_function, ialpha, ibeta, numerator, denominator,
                   result_1q30, result_20q11, numerator_8q23, denominator_8q23,
                   park_locals, cordic>>

cosine ==
    /\ pc = "cosine"
    /\ \E rd \in Scanf(DegreeTokens(IN_SIN_COS_MAX)) :
         /\ read_status' = rd.status
         /\ IF 0 < rd.status
            THEN LET x == Atof[rd.tok]
                     chk == check_range(Limit[IN_SIN_COS_MIN], Limit[IN_SIN_COS_MAX], x)
                 IN  /\ read_string' = rd.tok
                     /\ reads' = Append(reads,
                          ReadOk(rd.tok, Limit[IN_SIN_COS_MIN], Limit[IN_SIN_COS_MAX],
                                 x, chk))
                     /\ angle_deg' = x
                     /\ IF chk.return_val = "CY_CORDIC_SUCCESS"
                        THEN \E q \in DegToRadQ31[x] :
                               LET rad == DegToRad[x]
                                   hw == Term("Cy_CORDIC_Cos", <<q>>)
                                   sw == Term("cos", <<rad>>)
                               IN  /\ angle_rad' = rad
                                   /\ angle_q31' = q
                                   /\ result_q31' = hw
                                   /\ result_doub' = sw
                                   /\ out' = EndIter(out \o chk.out \o
                                        <<Call("Cy_CORDIC_Cos", <<q>>),
                                          Printf("Cosine of the angle using CORDIC: %f.", <<Q31_TO_FLOAT(hw)>>),
                                          Call("cos", <<rad>>),
                                          Printf("Cosine of the angle using math library: %f.", <<sw>>)>>)
                        ELSE /\ out' = EndIter(out \o chk.out)
                             /\ UNCHANGED <<angle_rad, angle_q31, result_q31, result_doub>>
            ELSE /\ out' = EndIter(out)
                 /\ reads' = Append(reads, ReadEof)
                 /\ UNCHANGED <<read_string, angle_deg, angle_rad, angle_q31,
                                result_q31, result_doub>>
    /\ pc' = "menu"
    /\ UNCHANGED <<boot, harness>>
    /\ UNCHANGED <<iter, g0, cordic_function, ialpha, ibeta, numerator, denominator,
                   result_1q30, result_20q11, numerator_8q23, denominator_8q23,
                   park_locals, cordic>>

tangent ==
    /\ pc = "tangent"
    /\ \E rd \in Scanf(DegreeTokens(IN_TAN_MAX)) :
         /\ read_status' = rd.status
         /\ IF 0 < rd.status
            THEN LET x == Atof[rd.tok]
                     chk == check_range(Limit[IN_TAN_MIN], Limit[IN_TAN_MAX], x)
                 IN  /\ read_string' = rd.tok
                     /\ reads' = Append(reads,
                          ReadOk(rd.tok, Limit[IN_TAN_MIN], Limit[IN_TAN_MAX],
                                 x, chk))
                     /\ angle_deg' = x
                     /\ IF chk.return_val = "CY_CORDIC_SUCCESS"
                        THEN \E q \in DegToRadQ31[x] :
                               LET rad == DegToRad[x]
                                   hw == Term("Cy_CORDIC_Tan", <<q>>)
                                   sw == Term("tan", <<rad>>)
                               IN  /\ angle_rad' = rad
                                   /\ angle_q31' = q
                                   /\ result_20q11' = hw
                                   /\ result_doub' = sw
                                   /\ out' = EndIter(out \o chk.out \o
                                        <<Call("Cy_CORDIC_Tan", <<q>>),
                                          Printf("Tangent of the angle using CORDIC: %f.", <<Q20_11_TO_FLOAT(hw)>>),
                                          Call("tan", <<rad>>),
                                          Printf("Tangent of the angle using math library: %f.", <<sw>>)>>)
                        ELSE /\ out' = EndIter(out \o chk.out)
                             /\ UNCHANGED <<angle_rad, angle_q31, result_20q11, result_doub>>
            ELSE /\ out' = EndIter(out)
                 /\ reads' = Append(reads, ReadEof)
                 /\ UNCHANGED <<read_string, angle_deg, angle_rad, angle_q31,
                                result_20q11, result_doub>>
    /\ pc' = "menu"
    /\ UNCHANGED <<boot, harness>>
    /\ UNCHANGED <<iter, g0, cordic_function, ialpha, ibeta, numerator, denominator,
                   result_q31, result_1q30, numerator_8q23, denominator_8q23,
                   park_locals, cordic>>

hyperbolic_sine ==
    /\ pc = "hyperbolic_sine"
    /\ \E rd \in Scanf(DegreeTokens(IN_HYP_SIN_COS_TAN_MAX)) :
         /\ read_status' = rd.status
         /\ IF 0 < rd.status
            THEN LET x == Atof[rd.tok]
                     chk == check_range(Limit[IN_HYP_SIN_COS_TAN_MIN], Limit[IN_HYP_SIN_COS_TAN_MAX], x)
                 IN  /\ read_string' = rd.tok
                     /\ reads' = Append(reads,
                          ReadOk(rd.tok, Limit[IN_HYP_SIN_COS_TAN_MIN], Limit[IN_HYP_SIN_COS_TAN_MAX],
                                 x, chk))
                     /\ angle_deg' = x
                     /\ IF chk.return_val = "CY_CORDIC_SUCCESS"
                        THEN \E q \in DegToRadQ31[x] :
                               LET rad == DegToRad[x]
                                   hw == Term("Cy_CORDIC_Sinh", <<q>>)
                                   sw == Term("sinh", <<rad>>)
                               IN  /\ angle_rad' = rad
                                   /\ angle_q31' = q
                                   /\ result_1q30' = hw
                                   /\ result_doub' = sw
                                   /\ out' = EndIter(out \o chk.out \o
                                        <<Call("Cy_CORDIC_Sinh", <<q>>),
                                          Printf("Hyperbolic Sine using CORDIC: %f.", <<Q1_30_TO_FLOAT(hw)>>),
                                          Call("sinh", <<rad>>),
                                          Printf("Hyperbolic Sine using math library: %f.", <<sw>>)>>)
                        ELSE /\ out' = EndIter(out \o chk.out)
                             /\ UNCHANGED <<angle_rad, angle_q31, result_1q30, result_doub>>
            ELSE /\ out' = EndIter(out)
                 /\ reads' = Append(reads, ReadEof)
                 /\ UNCHANGED <<read_string, angle_deg, angle_rad, angle_q31,
                                result_1q30, result_doub>>
    /\ pc' = "menu"
    /\ UNCHANGED <<boot, harness>>
    /\ UNCHANGED <<iter, g0, cordic_function, ialpha, ibeta, numerator, denominator,
                   result_q31, result_20q11, numerator_8q23, denominator_8q23,
                   park_locals, cordic>>

hyperbolic_cosine ==
    /\ pc = "hyperbolic_cosine"
    /\ \E rd \in Scanf(DegreeTokens(IN_HYP_SIN_COS_TAN_MAX)) :
         /\ read_status' = rd.status
         /\ IF 0 < rd.status
            THEN LET x == Atof[rd.tok]
                     chk == check_range(Limit[IN_HYP_SIN_COS_TAN_MIN], Limit[IN_HYP_SIN_COS_TAN_MAX], x)
                 IN  /\ read_string' = rd.tok
                     /\ reads' = Append(reads,
                          ReadOk(rd.tok, Limit[IN_HYP_SIN_COS_TAN_MIN], Limit[IN_HYP_SIN_COS_TAN_MAX],
                                 x, chk))
                     /\ angle_deg' = x
                     /\ IF chk.return_val = "CY_CORDIC_SUCCESS"
                        THEN \E q \in DegToRadQ31[x] :
                               LET rad == DegToRad[x]
                                   hw == Term("Cy_CORDIC_Cosh", <<q>>)
                                   sw == Term("cosh", <<rad>>)
                               IN  /\ angle_rad' = rad
                                   /\ angle_q31' = q
                                   /\ result_1q30' = hw
                                   /\ result_doub' = sw
                                   /\ out' = EndIter(out \o chk.out \o
                                        <<Call("Cy_CORDIC_Cosh", <<q>>),
                                          Printf("Hyperbolic Cosine using CORDIC: %f.", <<Q1_30_TO_FLOAT(hw)>>),
                                          Call("cosh", <<rad>>),
                                          Printf("Hyperbolic Cosine using math library: %f.", <<sw>>)>>)
                        ELSE /\ out' = EndIter(out \o chk.out)
                             /\ UNCHANGED <<angle_rad, angle_q31, result_1q30, result_doub>>
            ELSE /\ out' = EndIter(out)
                 /\ reads' = Append(reads, ReadEof)
                 /\ UNCHANGED <<read_string, angle_deg, angle_rad, angle_q31,
                                result_1q30, result_doub>>
    /\ pc' = "menu"
    /\ UNCHANGED <<boot, harness>>
    /\ UNCHANGED <<iter, g0, cordic_function, ialpha, ibeta, numerator, denominator,
                   result_q31, result_20q11, numerator_8q23, denominator_8q23,
                   park_locals, cordic>>

hyperbolic_tangent ==
    /\ pc = "hyperbolic_tangent"
    /\ \E rd \in Scanf(DegreeTokens(IN_HYP_SIN_COS_TAN_MAX)) :
         /\ read_status' = rd.status
         /\ IF 0 < rd.status
            THEN LET x == Atof[rd.tok]
                     chk == check_range(Limit[IN_HYP_SIN_COS_TAN_MIN], Limit[IN_HYP_SIN_COS_TAN_MAX], x)
                 IN  /\ read_string' = rd.tok
                     /\ reads' = Append(reads,
                          ReadOk(rd.tok, Limit[IN_HYP_SIN_COS_TAN_MIN], Limit[IN_HYP_SIN_COS_TAN_MAX],
                                 x, chk))
                     /\ angle_deg' = x
                     /\ IF chk.return_val = "CY_CORDIC_SUCCESS"
                        THEN \E q \in DegToRadQ31[x] :
                               LET rad == DegToRad[x]
                                   hw == Term("Cy_CORDIC_Tanh", <<q>>)
                                   sw == Term("tanh", <<rad>>)
                               IN  /\ angle_rad' = rad
                                   /\ angle_q31' = q
                                   /\ result_20q11' = hw
                                   /\ result_doub' = sw
                                   /\ out' = EndIter(out \o chk.out \o
                                        <<Call("Cy_CORDIC_Tanh", <<q>>),
                                          Printf("Hyperbolic Tangent using CORDIC: %f.", <<Q20_11_TO_FLOAT(hw)>>),
                                          Call("tanh", <<rad>>),
                                          Printf("Hyperbolic Tangent using math library: %f.", <<sw>>)>>)
                        ELSE /\ out' = EndIter(out \o chk.out)
                             /\ UNCHANGED <<angle_rad, angle_q31, result_20q11, result_doub>>
            ELSE /\ out' = EndIter(out)
                 /\ reads' = Append(reads, ReadEof)
                 /\ UNCHANGED <<read_string, angle_deg, angle_rad, angle_q31,
                                result_20q11, result_doub>>
    /\ pc' = "menu"
    /\ UNCHANGED <<boot, harness>>
    /\ UNCHANGED <<iter, g0, cordic_function, ialpha, ibeta, numerator, denominator,
                   result_q31, result_1q30, numerator_8q23, denominator_8q23,
                   park_locals, cordic>>

(***************************************************************************)
(* arc_tangent, hyperbolic_arc_tangent, square_root.                        *)
(***************************************************************************)
arc_tangent ==
    /\ pc = "arc_tangent"
    /\ \E rd \in Scanf(DegreeTokens(IN_ATAN_MAX)) :
         /\ read_status' = rd.status
         /\ IF 0 < rd.status
            THEN LET x == Atof[rd.tok]
                     chk == check_range(Limit[IN_ATAN_MIN], Limit[IN_ATAN_MAX], x)
                     num == Scaled[x]
                     den == Scaling
                 IN  /\ read_string' = rd.tok
                     /\ reads' = Append(reads,
                          ReadOk(rd.tok, Limit[IN_ATAN_MIN], Limit[IN_ATAN_MAX],
                                 x, chk))
                     /\ IF chk.return_val = "CY_CORDIC_SUCCESS"
                        THEN \E n8 \in ToQ8_23[num], d8 \in ToQ8_23[den] :
                               LET hw == Term("Cy_CORDIC_ArcTan", <<d8, n8>>)
                                   sw == FLOAT_RAD_TO_DEG(Term("atan2", <<num, den>>))
                               IN  /\ numerator' = num
                                   /\ denominator' = den
                                   /\ numerator_8q23' = n8
                                   /\ denominator_8q23' = d8
                                   /\ result_q31' = hw
                                   /\ result_doub' = sw
                                   /\ out' = EndIter(out \o chk.out \o
                                        <<Call("Cy_CORDIC_ArcTan", <<d8, n8>>),
                                          Printf("ArcTan in degree using CORDIC: %f.",
                                                 <<FLOAT_RAD_TO_DEG(Q31_TO_DEG_FLOAT(hw))>>),
                                          Call("atan2", <<num, den>>),
                                          Printf("ArcTan in degree using math library: %f.",
                                                 <<sw>>)>>)
                        ELSE /\ numerator' = x
                             /\ out' = EndIter(out \o chk.out)
                             /\ UNCHANGED <<denominator, numerator_8q23, denominator_8q23,
                                            result_q31, result_doub>>
            ELSE /\ out' = EndIter(out)
                 /\ reads' = Append(reads, ReadEof)
                 /\ UNCHANGED <<read_string, numerator, denominator, numerator_8q23,
                                denominator_8q23, result_q31, result_doub>>
    /\ pc' = "menu"
    /\ UNCHANGED <<boot, harness>>
    /\ UNCHANGED <<iter, g0, cordic_function, angle_deg, ialpha, ibeta, angle_rad,
                   angle_q31, result_1q30, result_20q11, park_locals, cordic>>

hyperbolic_arc_tangent ==
    /\ pc = "hyperbolic_arc_tangent"
    /\ \E rd \in Scanf(AtanhTokens) :
         /\ read_status' = rd.status
         /\ IF 0 < rd.status
            THEN LET read_value == Atof[rd.tok]
                     chk == check_range(IN_ATANH_MIN, IN_ATANH_MAX, read_value)
                     num == Scaled[read_value]
                     den == Scaling
                 IN  /\ read_string' = rd.tok
                     /\ reads' = Append(reads,
                          ReadOk(rd.tok, IN_ATANH_MIN, IN_ATANH_MAX,
                                 read_value, chk))
                     /\ IF chk.return_val = "CY_CORDIC_SUCCESS"
                        THEN \E n8 \in ToQ8_23[num], d8 \in ToQ8_23[den] :
                               LET hw == Term("Cy_CORDIC_ArcTanh", <<d8, n8>>)
                                   sw == FLOAT_RAD_TO_DEG(Term("atanh", <<read_value>>))
                               IN  /\ numerator' = num
                                   /\ denominator' = den
                                   /\ numerator_8q23' = n8
                                   /\ denominator_8q23' = d8
                                   /\ result_q31' = hw
                                   /\ result_doub' = sw
                                   /\ out' = EndIter(out \o chk.out \o
                                        <<Call("Cy_CORDIC_ArcTanh", <<d8, n8>>),
                                          Printf("Hyperbolic ArcTan in degree using CORDIC: %f.",
                                                 <<FLOAT_RAD_TO_DEG(Q31_TO_DEG_FLOAT(hw))>>),
                                          Call("atanh", <<read_value>>),
                                          Printf("Hyperbolic ArcTan in degree using math library: %f.",
                                                 <<sw>>)>>)
                        ELSE /\ out' = EndIter(out \o chk.out)
                             /\ UNCHANGED <<numerator, denominator, numerator_8q23,
                                            denominator_8q23, result_q31, result_doub>>
            ELSE /\ out' = EndIter(out)
                 /\ reads' = Append(reads, ReadEof)
                 /\ UNCHANGED <<read_string, numerator, denominator, numerator_8q23,
                                denominator_8q23, result_q31, result_doub>>
    /\ pc' = "menu"
    /\ UNCHANGED <<boot, harness>>
    /\ UNCHANGED <<iter, g0, cordic_function, angle_deg, ialpha, ibeta, angle_rad,
                   angle_q31, result_1q30, result_20q11, park_locals, cordic>>

\* square_root printing the math-library result from result_doub before
\* assigning it
square_root_prints_stale ==
    /\ pc = "square_root"
    /\ \E rd \in Scanf(SqrtTokens) :
         /\ read_status' = rd.status
         /\ IF 0 < rd.status
            THEN LET number == Atof[rd.tok]
                     chk == check_range(Limit[0], Limit[1], number)
                     \* printed by the trailing if(0 == number)
                     zero == IF F32IsZero(number) THEN <<Printf(MSG_ZERO, <<>>)>> ELSE <<>>
                 IN  /\ read_string' = rd.tok
                     /\ reads' = Append(reads,
                          ReadOk(rd.tok, Limit[0], Limit[1],
                                 number, chk))
                     /\ IF chk.return_val = "CY_CORDIC_SUCCESS" /\ ~F32IsZero(number)
                        THEN \E number_q31 \in ToQ31[number] :
                               LET square_root_q31 == Term("Cy_CORDIC_Sqrt", <<number_q31>>)
                                   sw == Term("sqrt", <<number>>)
                               IN  /\ result_doub' = sw
                                   /\ out' = EndIter(out \o chk.out \o
                                        <<Call("Cy_CORDIC_Sqrt", <<number_q31>>),
                                          Printf("Square root using CORDIC: %f.",
                                                 <<Q31_TO_FLOAT(square_root_q31)>>),
                                          Call("sqrt", <<number>>),
                                          Printf("Square root using math library: %f.", <<result_doub>>)>>
                                        \o zero)
                        ELSE /\ out' = EndIter(out \o chk.out \o zero)
                             /\ UNCHANGED result_doub
            ELSE /\ out' = EndIter(out)
                 /\ reads' = Append(reads, ReadEof)
                 /\ UNCHANGED <<read_string, result_doub>>
    /\ pc' = "menu"
    /\ UNCHANGED <<boot, harness>>
    /\ UNCHANGED <<iter, g0, cordic_function, operands, fixed, result_q31, result_1q30,
                   result_20q11, park_locals, cordic>>

square_root ==
    /\ pc = "square_root"
    /\ \E rd \in Scanf(SqrtTokens) :
         /\ read_status' = rd.status
         /\ IF 0 < rd.status
            THEN LET number == Atof[rd.tok]
                     chk == check_range(Limit[0], Limit[1], number)
                     \* printed by the trailing if(0 == number)
                     zero == IF F32IsZero(number) THEN <<Printf(MSG_ZERO, <<>>)>> ELSE <<>>
                 IN  /\ read_string' = rd.tok
                     /\ reads' = Append(reads,
                          ReadOk(rd.tok, Limit[0], Limit[1],
                                 number, chk))
                     /\ IF chk.return_val = "CY_CORDIC_SUCCESS" /\ ~F32IsZero(number)
                        THEN \E number_q31 \in ToQ31[number] :
                               LET square_root_q31 == Term("Cy_CORDIC_Sqrt", <<number_q31>>)
                                   sw == Term("sqrt", <<number>>)
                               IN  /\ result_doub' = sw
                                   /\ out' = EndIter(out \o chk.out \o
                                        <<Call("Cy_CORDIC_Sqrt", <<number_q31>>),
                                          Printf("Square root using CORDIC: %f.",
                                                 <<Q31_TO_FLOAT(square_root_q31)>>),
                                          Call("sqrt", <<number>>),
                                          Printf("Square root using math library: %f.", <<sw>>)>>
                                        \o zero)
                        ELSE /\ out' = EndIter(out \o chk.out \o zero)
                             /\ UNCHANGED result_doub
            ELSE /\ out' = EndIter(out)
                 /\ reads' = Append(reads, ReadEof)
                 /\ UNCHANGED <<read_string, result_doub>>
    /\ pc' = "menu"
    /\ UNCHANGED <<boot, harness>>
    /\ UNCHANGED <<iter, g0, cordic_function, operands, fixed, result_q31, result_1q30,
                   result_20q11, park_locals, cordic>>

(***************************************************************************)
(* park_transform: three reads, the non-blocking CORDIC call, the poll.     *)
(***************************************************************************)
park_transform ==
    /\ pc = "park_transform"
    /\ \E rd \in Scanf(DegreeTokens(IN_PARK_ANGLE_MAX)) :
         /\ read_status' = rd.status
         /\ IF 0 < rd.status
            THEN LET x == Atof[rd.tok]
                     chk == check_range(Limit[IN_PARK_ANGLE_MIN],
                                        Limit[IN_PARK_ANGLE_MAX], x)
                 IN  /\ read_string' = rd.tok
                     /\ reads' = Append(reads,
                          ReadOk(rd.tok, Limit[IN_PARK_ANGLE_MIN], Limit[IN_PARK_ANGLE_MAX],
                                 x, chk))
                     /\ angle_deg' = x
                     /\ IF chk.return_val = "CY_CORDIC_SUCCESS"
                        THEN /\ out' = out \o <<Printf(PROMPT_ALPHA, <<>>)>>
                             /\ pc' = "park_transform_alpha"
                        ELSE /\ out' = EndIter(out \o chk.out)
                             /\ pc' = "menu"
            ELSE /\ out' = EndIter(out)
                 /\ reads' = Append(reads, ReadEof)
                 /\ pc' = "menu"
                 /\ UNCHANGED <<read_string, angle_deg>>
    /\ UNCHANGED <<boot, harness>>
    /\ UNCHANGED <<iter, g0, cordic_function, ialpha, ibeta, angle_rad, numerator,
                   denominator, fixed, results, park_locals, cordic>>

park_transform_alpha ==
    /\ pc = "park_transform_alpha"
    /\ \E rd \in Scanf(UnitTokens) :
         /\ read_status' = rd.status
         /\ IF 0 < rd.status
            THEN LET x == Atof[rd.tok]
                     chk == check_range(Limit[-1], Limit[1], x)
                 IN  /\ read_string' = rd.tok
                     /\ reads' = Append(reads,
                          ReadOk(rd.tok, Limit[-1], Limit[1],
                                 x, chk))
                     /\ ialpha' = x
                     /\ IF chk.return_val = "CY_CORDIC_SUCCESS"
                        THEN /\ out' = out \o <<Printf(PROMPT_BETA, <<>>)>>
                             /\ pc' = "park_transform_beta"
                        ELSE /\ out' = EndIter(out \o chk.out)
                             /\ pc' = "menu"
            ELSE /\ out' = EndIter(out)
                 /\ reads' = Append(reads, ReadEof)
                 /\ pc' = "menu"
                 /\ UNCHANGED <<read_string, ialpha>>
    /\ UNCHANGED <<boot, harness>>
    /\ UNCHANGED <<iter, g0, cordic_function, angle_deg, ibeta, angle_rad, numerator,
                   denominator, fixed, results, park_locals, cordic>>

\* the third read; when it passes, the operands are converted and
\* Cy_CORDIC_ParkTransformNB starts the CORDIC block
park_transform_beta ==
    /\ pc = "park_transform_beta"
    /\ \E rd \in Scanf(UnitTokens) :
         /\ read_status' = rd.status
         /\ IF 0 < rd.status
            THEN LET x == Atof[rd.tok]
                     chk == check_range(Limit[-1], Limit[1], x)
                 IN  /\ read_string' = rd.tok
                     /\ reads' = Append(reads,
                          ReadOk(rd.tok, Limit[-1], Limit[1],
                                 x, chk))
                     /\ ibeta' = x
                     /\ IF chk.return_val = "CY_CORDIC_SUCCESS"
                        THEN \E q \in DegToRadQ31[angle_deg],
                                a \in ToQ31[ialpha], b \in ToQ31[x] :
                               /\ angle_rad' = DegToRad[angle_deg]
                               /\ angle_q31' = q
                               /\ i_alpha_q31' = a
                               /\ i_beta_q31' = b
                               /\ cordic_busy' = TRUE
                               /\ cordic_regs' = <<q, a, b>>
                               /\ out' = out \o <<Call("Cy_CORDIC_ParkTransformNB", <<q, a, b>>)>>
                               /\ pc' = "park_transform_poll"
                        ELSE /\ out' = EndIter(out \o chk.out)
                             /\ pc' = "menu"
                             /\ UNCHANGED <<angle_rad, angle_q31, park_locals, cordic>>
            ELSE /\ out' = EndIter(out)
                 /\ reads' = Append(reads, ReadEof)
                 /\ pc' = "menu"
                 /\ UNCHANGED <<read_string, ibeta, angle_rad, angle_q31, park_locals, cordic>>
    /\ UNCHANGED <<boot, harness>>
    /\ UNCHANGED <<iter, g0, cordic_function, angle_deg, ialpha, numerator, denominator,
                   numerator_8q23, denominator_8q23, results>>

\* the CORDIC block finishes the operation it was given
cordic_complete ==
    /\ cordic_busy
    /\ cordic_busy' = FALSE
    /\ UNCHANGED <<boot, harness>>
    /\ UNCHANGED <<pc, iter, out, g0, reads, io, cordic_function, operands, fixed, results,
                   park_locals, cordic_regs>>

\* the poll with its condition inverted: while(!Cy_CORDIC_IsBusy(MXCORDIC)){}
PollExitWhileIdle == cordic_busy

\* the condition on which while(Cy_CORDIC_IsBusy(MXCORDIC)){} is left
PollExit == ~cordic_busy

\* the busy loop falls through; the result is fetched and printed, then the
\* software transform is computed and printed
park_transform_result ==
    /\ pc = "park_transform_poll"
    /\ PollExit
    /\ LET id == Term("parkTransformId", cordic_regs)
           iq == Term("parkTransformIq", cordic_regs)
           gain == Term("1/", <<CORDIC_CIRCULAR_GAIN>>)
           sin_of_angle == Term("sin", <<angle_rad>>)
           cos_of_angle == Term("cos", <<angle_rad>>)
           sin_q31 == FLOAT_TO_Q31_OF(sin_of_angle)
           cos_q31 == FLOAT_TO_Q31_OF(cos_of_angle)
           sw == <<I32(i_alpha_q31), I32(i_beta_q31), sin_q31, cos_q31>>
       IN  out' = EndIter(out \o
                <<Call("Cy_CORDIC_GetParkResult", cordic_regs),
                  Printf("Park transform using CORDIC. Id: %f. Iq: %f.",
                         <<Term("*", <<Q23_TO_FLOAT(id), gain>>),
                           Term("*", <<Q23_TO_FLOAT(iq), gain>>)>>),
                  Call("sin", <<angle_rad>>), Call("cos", <<angle_rad>>),
                  Call("arm_park_q31", sw),
                  Printf("Park transform using math library. Id: %f Iq: %f.",
                         <<Q31_TO_FLOAT(Term("arm_park_q31.pId", sw)),
                           Q31_TO_FLOAT(Term("arm_park_q31.pIq", sw))>>)>>)
    /\ i_alpha_q31' = 0
    /\ i_beta_q31' = 0
    /\ pc' = "menu"
    /\ UNCHANGED <<boot, harness>>
    /\ UNCHANGED <<iter, g0, reads, io, cordic_function, operands, fixed, results, cordic>>

(***************************************************************************)
(* FLOAT_TO_Q31 followed by Q31_TO_FLOAT, on float32_t values of the Q31    *)
(* range [-1, 1).                                                           *)
(***************************************************************************)
MaxNumer == 16
Denominators == {16, 17, 1000, 1000000}

Q31Inputs ==
    {x \in {RatToF32(neg, n, d) : neg \in BOOLEAN, n \in 0..MaxNumer, d \in Denominators} :
        F32Le(IntToF32(-1), x) /\ F32Lt(x, IntToF32(1))}

\* (float32_t)(x) for an int32_t x
I32ToF32(x) == IF x = INT32_MIN THEN F32(TRUE, TwoP23, 8) ELSE IntToF32(x)

\* a / b on binary32 for b a power of two: the quotient is exact
F32DivPow2(a, b) ==
    IF a.m = 0 THEN a ELSE F32(a.neg # b.neg, a.m, a.e - b.e - 23)

\* Q31_TO_FLOAT on numbers: the long long multiplier is converted to float32_t
Q31_TO_FLOAT_F32(x) == F32DivPow2(I32ToF32(x), LLToF32(Q31_MULTIPLIER))

FloatToQ31 == [x \in Q31Inputs |-> FLOAT_TO_Q31(x)]
Q31ToFloat == [x \in UNION {FloatToQ31[v] : v \in Q31Inputs} |-> Q31_TO_FLOAT_F32(x)]

RoundTripInit ==
    /\ pc = "FLOAT_TO_Q31"
    /\ iter = 0
    /\ Entry
    /\ boot = BootOk
    /\ f32_in \in Q31Inputs
    /\ q31_val = 0
    /\ f32_out = F32Zero

\* q = FLOAT_TO_Q31(x)
float_to_q31 ==
    /\ pc = "FLOAT_TO_Q31"
    /\ q31_val' \in FloatToQ31[f32_in]
    /\ pc' = "Q31_TO_FLOAT"
    /\ UNCHANGED <<iter, out, g0, reads, io, cordic_function, operands, fixed, results,
                   park_locals, cordic, boot, f32_in, f32_out>>

\* y = Q31_TO_FLOAT(q)
q31_to_float ==
    /\ pc = "Q31_TO_FLOAT"
    /\ f32_out' = Q31ToFloat[q31_val]
    /\ pc' = "converted"
    /\ UNCHANGED <<iter, out, g0, reads, io, cordic_function, operands, fixed, results,
                   park_locals, cordic, boot, f32_in, q31_val>>

RoundTripNext == float_to_q31 \/ q31_to_float
RoundTripSpec == RoundTripInit /\ [][RoundTripNext]_vars

(***************************************************************************)
(* The program.                                                             *)
(***************************************************************************)
Next ==
    \/ print_menu
    \/ run_cordic_functions
    \/ park_transform
    \/ park_transform_alpha
    \/ park_transform_beta
    \/ cordic_complete
    \/ park_transform_result
    \/ sine
    \/ cosine
    \/ tangent
    \/ arc_tangent
    \/ hyperbolic_sine
    \/ hyperbolic_cosine
    \/ hyperbolic_tangent
    \/ hyperbolic_arc_tangent
    \/ square_root

Spec == Init /\ [][Next]_vars

\* the steps the processor takes: every one but the CORDIC block's own
ProgramStep ==
    \/ print_menu \/ run_cordic_functions
    \/ park_transform \/ park_transform_alpha \/ park_transform_beta
    \/ park_transform_result
    \/ sine \/ cosine \/ tangent \/ arc_tangent
    \/ hyperbolic_sine \/ hyperbolic_cosine \/ hyperbolic_tangent
    \/ hyperbolic_arc_tangent \/ square_root

\* The processor keeps executing, every console read returns (with a token
\* or with EOF), and the CORDIC block finishes the operation it was given.
FairSpec == Spec /\ WF_vars(ProgramStep) /\ WF_vars(cordic_complete)

(***************************************************************************)
(* main, from reset to the menu loop.                                       *)
(***************************************************************************)
\* menu iterations followed once main has entered run_cordic_functions
MainIter == 1

MainInit ==
    /\ pc = "main"
    /\ iter = MaxIter - MainIter
    /\ Entry
    /\ boot = <<>>
    /\ HarnessIdle

\* the statement main executes next
MainStatement == MainBody[Len(boot) + 1]

\* CY_ASSERT(0): the program halts where assertions are compiled in; the
\* macro expands to nothing in a build with NDEBUG
CY_ASSERT == {"halted", "main"}

\* cybsp_init, Cy_SCB_UART_Init, mtb_hal_uart_setup, cy_retarget_io_init:
\* result = the status the step returns
main_init_step ==
    /\ pc = "main"
    /\ MainStatement \in InitSteps
    /\ \E result \in {CY_RSLT_SUCCESS, CY_RSLT_FAILED} :
         boot' = Append(boot, Step(MainStatement, result))
    /\ UNCHANGED <<pc, iter, out, g0, reads, io, cordic_function, operands, fixed, results,
                   park_locals, cordic, harness>>

\* handle_error(result)
handle_error ==
    /\ pc = "main"
    /\ MainStatement = "handle_error"
    /\ LET status == boot[Len(boot)].status
       IN  IF status # CY_RSLT_SUCCESS
           THEN \E to \in CY_ASSERT :
                  /\ pc' = to
                  /\ boot' = Append(boot, Step("handle_error",
                                               IF to = "halted" THEN "CY_ASSERT" ELSE "void"))
           ELSE /\ boot' = Append(boot, Step("handle_error", "void"))
                /\ UNCHANGED pc
    /\ UNCHANGED <<iter, out, g0, reads, io, cordic_function, operands, fixed, results,
                   park_locals, cordic, harness>>

\* Cy_CORDIC_Enable, Cy_SCB_UART_Enable, __enable_irq
main_void_step ==
    /\ pc = "main"
    /\ MainStatement \in VoidSteps
    /\ boot' = Append(boot, Step(MainStatement, "void"))
    /\ UNCHANGED <<pc, iter, out, g0, reads, io, cordic_function, operands, fixed, results,
                   park_locals, cordic, harness>>

\* run_cordic_functions() is entered
main_run_cordic_functions ==
    /\ pc = "main"
    /\ MainStatement = "run_cordic_functions"
    /\ boot' = Append(boot, Step(MainStatement, "void"))
    /\ pc' = "menu"
    /\ UNCHANGED <<iter, out, g0, reads, io, cordic_function, operands, fixed, results,
                   park_locals, cordic, harness>>

MainNext ==
    \/ main_init_step
    \/ handle_error
    \/ main_void_step
    \/ main_run_cordic_functions
    \/ Next
MainSpec == MainInit /\ [][MainNext]_vars

InHandler ==
    pc \in Handlers \cup {"park_transform_alpha", "park_transform_beta",
                          "park_transform_poll"}

(***************************************************************************)
(* Observations on the iteration in progress.                               *)
(***************************************************************************)
Printed(text) == \E j \in DOMAIN out : out[j].ev = "printf" /\ out[j].text = text
\* the handlers entered
HandlerCalls == {j \in DOMAIN out : out[j].ev = "call" /\ out[j].text \in Handlers}
\* calls of the CORDIC driver and of the math library
ExternalCalls == {j \in DOMAIN out : out[j].ev = "call" /\ out[j].text \notin Handlers}
\* printf with a %f result
ResultPrints ==
    {j \in DOMAIN out : /\ out[j].ev = "printf"
                        /\ out[j].vals # <<>>
                        /\ out[j].text \notin {"PDL: CORDIC", "Selected option -"}}
Computed == ExternalCalls # {} \/ ResultPrints # {}

\* the selector read has just returned: read_status and read_string are its
AfterSelector == pc \in Handlers \cup {"menu"} /\ reads = <<>> /\ out # <<>>
IsMenuLabel(t) == \E k \in Ifx_CORDIC_PARK_TRANS..Ifx_CORDIC_SQRT : t = Int2Dec(k)

\* the operand and result scratch variables
Scratch(g) ==
    [angle_deg |-> g.angle_deg, ialpha |-> g.ialpha, ibeta |-> g.ibeta,
     angle_rad |-> g.angle_rad, numerator |-> g.numerator,
     denominator |-> g.denominator, angle_q31 |-> g.angle_q31,
     numerator_8q23 |-> g.numerator_8q23, denominator_8q23 |-> g.denominator_8q23,
     result_doub |-> g.result_doub, result_q31 |-> g.result_q31,
     result_1q30 |-> g.result_1q30, result_20q11 |-> g.result_20q11]
\* those of them that only a conversion or a computation assigns
Derived(g) ==
    [angle_rad |-> g.angle_rad, denominator |-> g.denominator,
     angle_q31 |-> g.angle_q31, numerator_8q23 |-> g.numerator_8q23,
     denominator_8q23 |-> g.denominator_8q23,
     result_doub |-> g.result_doub, result_q31 |-> g.result_q31,
     result_1q30 |-> g.result_1q30, result_20q11 |-> g.result_20q11]

RangeFailed == \E i \in DOMAIN reads : reads[i].ret = "CY_CORDIC_BAD_PARAM"
ReadFailed == \E i \in DOMAIN reads : reads[i].status <= 0
FailedInvocation == pc = "menu" /\ (RangeFailed \/ ReadFailed)
NOperands == IF cordic_function = Ifx_CORDIC_PARK_TRANS THEN 3 ELSE 1

(***************************************************************************)
(* C1.  check_range(low, high, value) returns CY_CORDIC_SUCCESS if and only *)
(* if low <= value <= high, printing nothing; otherwise it prints the       *)
(* "not in range" diagnostic and returns CY_CORDIC_BAD_PARAM.               *)
(* Stated on every range check a handler has made.  It fails: a NaN         *)
(* (atof("nan")) is not within any limits, yet both comparisons of          *)
(* check_range are false for it and CY_CORDIC_SUCCESS is returned.          *)
(***************************************************************************)
C1_CheckRangeIffWithin ==
    \A i \in DOMAIN reads :
        LET r == reads[i]
            within == F32Le(r.low, r.value) /\ F32Le(r.value, r.high)
        IN  r.status > 0 =>
              /\ (r.ret = "CY_CORDIC_SUCCESS") <=> within
              /\ within => r.printed = <<>>
              /\ ~within => /\ r.ret = "CY_CORDIC_BAD_PARAM"
                            /\ r.printed = <<Printf(MSG_NOT_IN_RANGE, <<>>)>>

(***************************************************************************)
(* C2.  A selector k in 0..9 invokes exactly one handler, the one the menu  *)
(* labels k; no iteration invokes two handlers.                             *)
(***************************************************************************)
C2_SelectorInvokesItsHandler ==
    /\ Cardinality(HandlerCalls) <= 1
    /\ \A j \in HandlerCalls :
         /\ cordic_function \in Ifx_CORDIC_PARK_TRANS..Ifx_CORDIC_SQRT
         /\ Announce[out[j].text] = MenuLabels[cordic_function + 1]
    /\ \A k \in Ifx_CORDIC_PARK_TRANS..Ifx_CORDIC_SQRT :
         (AfterSelector /\ read_status > 0 /\ read_string = Int2Dec(k)) =>
            /\ pc \in Handlers
            /\ Announce[pc] = MenuLabels[k + 1]
            /\ \E j \in HandlerCalls : out[j].text = pc

C2_Witness ==
    /\ pc = "square_root"
    /\ read_string = Int2Dec(Ifx_CORDIC_SQRT)
    /\ Cardinality(HandlerCalls) = 1

(***************************************************************************)
(* C3.  Every selector token that is not one of the labels 0..9, a token    *)
(* that is no number included, prints "Wrong option selected", invokes no   *)
(* handler and returns to the menu.                                         *)
(* It fails: atoi gives 0 for a token that is no number, and 0 selects      *)
(* park_transform.                                                          *)
(***************************************************************************)
C3_NonLabelIsWrongOption ==
    (AfterSelector /\ read_status > 0 /\ ~IsMenuLabel(read_string)) =>
        /\ Printed(MSG_WRONG_OPTION)
        /\ HandlerCalls = {}
        /\ pc = "menu"

(***************************************************************************)
(* C4, as specified.  An iteration that reads an unrecognized selector      *)
(* leaves                                                                   *)
(* every global variable as it was before the iteration.                    *)
(***************************************************************************)
C4_WrongOptionLeavesGlobals ==
    (AfterSelector /\ Printed(MSG_WRONG_OPTION)) => Globals = g0

(***************************************************************************)
(* C4, amended.  An iteration that reads an unrecognized selector leaves    *)
(* the operand and result scratch variables as they were; read_status holds *)
(* what scanf returned and cordic_function the number read, which is none   *)
(* of 0..9.                                                                 *)
(***************************************************************************)
C4_WrongOptionLeavesScratch ==
    (AfterSelector /\ Printed(MSG_WRONG_OPTION)) =>
        /\ Scratch(Globals) = Scratch(g0)
        /\ read_status = 1
        /\ cordic_function = atoi(read_string)
        /\ cordic_function \notin Ifx_CORDIC_PARK_TRANS..Ifx_CORDIC_SQRT

C4_Witness ==
    /\ AfterSelector /\ Printed(MSG_WRONG_OPTION)
    /\ cordic_function = 42
    /\ g0.cordic_function = Ifx_CORDIC_SINE
    /\ ~F32IsZero(angle_deg)
    /\ result_doub # Lit0

(***************************************************************************)
(* C5.  No state of the loop is terminal, and every handler that was        *)
(* invoked returns and the menu is printed again, whatever the selector and *)
(* the operands were, provided every console read returns and the CORDIC    *)
(* block finishes its operation (FairSpec).  The selector reads of a run    *)
(* are bounded by MaxIter, so the run rests at the last menu printed.       *)
(***************************************************************************)
C5_HandlerReturnsToMenu ==
    /\ InHandler ~> (pc = "select")
    /\ []((pc # "select" \/ iter < MaxIter) => ENABLED Next)

\* park_transform ran to its end, the busy poll included, and the menu of
\* the next iteration is printed
C5_Witness ==
    /\ pc = "select"
    /\ iter > 0
    /\ cordic_regs # <<>>
    /\ ~cordic_busy
    /\ g0.cordic_function = Ifx_CORDIC_PARK_TRANS

(***************************************************************************)
(* C6.  The CORDIC driver and the math library are called, and a result is  *)
(* printed, only if every operand of the handler was read and passed its    *)
(* range check; an operand that fails the range check prints the "not in    *)
(* range" diagnostic, and then nothing is converted, called or printed as   *)
(* a result.                                                                *)
(***************************************************************************)
C6_ComputesOnlyCheckedOperands ==
    /\ Computed =>
         /\ Len(reads) = NOperands
         /\ \A i \in DOMAIN reads :
              reads[i].status > 0 /\ reads[i].ret = "CY_CORDIC_SUCCESS"
    /\ Printed(MSG_NOT_IN_RANGE) => ~Computed
    /\ RangeFailed =>
         /\ Printed(MSG_NOT_IN_RANGE)
         /\ ~Computed
         /\ Derived(Globals) = Derived(g0)
         /\ park_locals = <<0, 0>>
         /\ pc = "menu"

\* the second operand of park_transform fails its check, after an iteration
\* that computed something
C6_Witness ==
    /\ Len(reads) = 2
    /\ reads[1].ret = "CY_CORDIC_SUCCESS"
    /\ reads[2].ret = "CY_CORDIC_BAD_PARAM"
    /\ Printed(MSG_NOT_IN_RANGE)
    /\ g0.angle_q31 # 0

(***************************************************************************)
(* C7, as specified.  A handler invocation that ends in a failed read or a  *)
(* failed range check leaves angle_deg, ialpha, ibeta, angle_rad,           *)
(* numerator, denominator, angle_q31, numerator_8q23, denominator_8q23 and  *)
(* the four result variables as they were before it.                        *)
(***************************************************************************)
C7_FailureLeavesScratch ==
    FailedInvocation => Scratch(Globals) = Scratch(g0)

(***************************************************************************)
(* C7, amended.  A handler invocation that ends in a failed read or a       *)
(* failed range check leaves the converted operands and the results         *)
(* (angle_rad, denominator, angle_q31, numerator_8q23, denominator_8q23     *)
(* and the four result variables) as they were; angle_deg, ialpha, ibeta    *)
(* and numerator are                                                        *)
(* either as they were or hold a value entered in this invocation, which    *)
(* is stored before it is checked; nothing changes when no operand was      *)
(* read.                                                                    *)
(***************************************************************************)
C7_FailureLeavesDerived ==
    FailedInvocation =>
        /\ Derived(Globals) = Derived(g0)
        /\ \A v \in {"angle_deg", "ialpha", "ibeta", "numerator"} :
             \/ Globals[v] = g0[v]
             \/ \E i \in DOMAIN reads : reads[i].status > 0 /\ Globals[v] = reads[i].value
        /\ (\A i \in DOMAIN reads : reads[i].status <= 0) =>
             Scratch(Globals) = Scratch(g0)

\* sine rejects an angle, after an iteration that computed something: the
\* rejected angle is in angle_deg
C7_Witness ==
    /\ FailedInvocation
    /\ cordic_function = Ifx_CORDIC_SINE
    /\ RangeFailed
    /\ angle_deg # g0.angle_deg
    /\ g0.angle_q31 # 0

(***************************************************************************)
(* C8.  An operand that is no number, or a read that fails, ends the        *)
(* handler at once and silently: no diagnostic, no call of the CORDIC       *)
(* driver or the math library, no result printed, no further read.          *)
(* It fails: atof gives 0 for a token that is no number and the handler     *)
(* goes on with 0 (and with a NaN for "nan").                               *)
(***************************************************************************)
C8_MalformedOperandIsSilent ==
    \A i \in DOMAIN reads :
        (reads[i].status <= 0 \/ reads[i].tok.kind # "num") =>
            /\ ~Printed(MSG_NOT_IN_RANGE)
            /\ ~Printed(MSG_ZERO)
            /\ ~Computed
            /\ Len(reads) = i
            /\ pc = "menu"

\* the listed interval [-b, b] of operand i of handler h
ListedBound(h, i) ==
    CASE h = "park_transform" /\ i = 1 -> Dec(FALSE, 90, 1)
      [] h = "park_transform" /\ i > 1 -> Dec(FALSE, 1, 1)
      [] h \in {"sine", "cosine"} -> Dec(FALSE, 90, 1)
      [] h = "tangent" -> Dec(FALSE, 89, 1)
      [] h = "arc_tangent" -> Dec(FALSE, 57, 1)
      [] h \in {"hyperbolic_sine", "hyperbolic_cosine", "hyperbolic_tangent"} ->
           Dec(FALSE, 60, 1)
      [] h = "hyperbolic_arc_tangent" -> Dec(FALSE, 8, 10)
\* |t| <= b on the numerals themselves
DecWithin(t, b) == t.n * b.d <= b.n * t.d

(***************************************************************************)
(* C9.  Each handler accepts exactly the closed interval listed for its     *)
(* operand: Park angle [-90,90], alpha and beta [-1,1], sine and cosine     *)
(* [-90,90], tangent [-89,89], arc tangent [-57,57], hyperbolic sine,       *)
(* cosine and tangent [-60,60], hyperbolic arc tangent [-0.8,0.8].          *)
(* Stated on the number entered.  It fails: "nan" is accepted by every      *)
(* handler (C1), and a number just above a limit that rounds to the limit   *)
(* in float32_t (90.000001) is accepted too.                                *)
(***************************************************************************)
C9_AcceptsExactlyListedInterval ==
    \A i \in DOMAIN reads :
        LET r == reads[i]
            h == Dispatch(cordic_function)
        IN  (r.status > 0 /\ r.tok.kind \in {"num", "nan"} /\ h # "square_root") =>
              ((r.ret = "CY_CORDIC_SUCCESS") <=>
                 (r.tok.kind = "num" /\ DecWithin(r.tok, ListedBound(h, i))))

(***************************************************************************)
(* C10.  Cy_CORDIC_Sqrt and sqrt are called only for an entered value v     *)
(* with 0 < v < 1.                                                          *)
(* It fails: check_range(0, 1, number) accepts 1, and 1 is not 0, so the    *)
(* square root of 1 is computed; so is that of a NaN.                       *)
(***************************************************************************)
C10_SqrtOnlyInsideOpenUnit ==
    (\E j \in DOMAIN out : /\ out[j].ev = "call"
                           /\ out[j].text \in {"Cy_CORDIC_Sqrt", "sqrt"}) =>
        LET t == reads[1].tok
        IN  t.kind = "num" /\ ~t.neg /\ 0 < t.n /\ t.n < t.d

C12_Q31FitsInt32 ==
    /\ (\E j \in DOMAIN out : out[j] = Call("Cy_CORDIC_ParkTransformNB", cordic_regs)) =>
         /\ ialpha.nan \/ (F32FitsI32(Q31Product[ialpha])
                           /\ cordic_regs[2] = F32Trunc(Q31Product[ialpha]))
         /\ ibeta.nan \/ (F32FitsI32(Q31Product[ibeta])
                          /\ cordic_regs[3] = F32Trunc(Q31Product[ibeta]))
    /\ \A j \in DOMAIN out :
         (out[j].ev = "call" /\ out[j].text = "Cy_CORDIC_Sqrt") =>
            LET number == reads[1].value
            IN  number.nan \/ (F32FitsI32(Q31Product[number])
                               /\ out[j].vals = <<F32Trunc(Q31Product[number])>>)

\* the wide integer w is 2^k
IsPow2(w, k) == w = (IF k >= 16 THEN LL(Pow2(k - 16), 0) ELSE LL(0, Pow2(k)))
\* the divisor of a Q*_TO_FLOAT conversion (float32_t)(x) / M
Divisor(t) == t.args[2]

(***************************************************************************)
(* C13.  Every fixed-point conversion scales by exactly the power of two    *)
(* of its format: Q31 by 2^31, Q30 by 2^30, Q23 by 2^23, Q11 by 2^11, Q8 by *)
(* 2^8.  Stated on the conversions behind every result printed.             *)
(* It fails: Q23_MULTIPLIER is 8388607 = 2^23 - 1, so the Park results are  *)
(* divided by 2^23 - 1.                                                     *)
(***************************************************************************)
C13_ScalesArePowersOfTwo ==
    \A j \in DOMAIN out :
        LET p == out[j]
        IN  p.ev = "printf" =>
              /\ p.text \in {"Sine of the angle using CORDIC: %f.",
                             "Cosine of the angle using CORDIC: %f.",
                             "Square root using CORDIC: %f."} =>
                   IsPow2(Divisor(p.vals[1]), 31) /\ IsPow2(Q31_MULTIPLIER, 31)
              /\ p.text \in {"Hyperbolic Sine using CORDIC: %f.",
                             "Hyperbolic Cosine using CORDIC: %f."} =>
                   IsPow2(Divisor(p.vals[1]), 30)
              /\ p.text \in {"Tangent of the angle using CORDIC: %f.",
                             "Hyperbolic Tangent using CORDIC: %f."} =>
                   IsPow2(Divisor(p.vals[1]), 11)
              /\ p.text \in {"ArcTan in degree using CORDIC: %f.",
                             "Hyperbolic ArcTan in degree using CORDIC: %f."} =>
                   IsPow2(Q8_MULTIPLIER, 8) /\ IsPow2(Q31_MULTIPLIER, 31)
              /\ p.text = "Park transform using CORDIC. Id: %f. Iq: %f." =>
                   /\ IsPow2(Divisor(p.vals[1].args[1]), 23)
                   /\ IsPow2(Divisor(p.vals[2].args[1]), 23)

\* A float32_t v with |v| <= 1 in units of 2^-31: the whole units, signed,
\* and whether nothing is left over.
Q31Units(v) ==
    LET s == v.e + 31
        mag == IF v.m = 0 \/ s <= -24 THEN 0
               ELSE IF s < 0 THEN v.m \div Pow2(-s)
               ELSE IF s = 8 THEN INT32_MAX
               ELSE v.m * Pow2(s)
        exact == v.m = 0 \/ s >= 0 \/ (s > -24 /\ v.m % Pow2(-s) = 0)
    IN  [whole |-> IF s = 8 /\ v.m # 0 THEN (IF v.neg THEN INT32_MIN ELSE INT32_MAX)
                   ELSE IF v.neg THEN -mag ELSE mag,
         exact |-> exact,
         neg |-> v.neg]

\* |v - n * 2^-31| < 2^-31 for v given in Q31 units and n a whole number of them
WithinOneUnit(v, n) ==
    \/ n = v.whole
    \/ ~v.exact /\ n = (IF v.neg THEN v.whole - 1 ELSE v.whole + 1)

\* C14: for every float32_t x with -1 <= x < 1, FLOAT_TO_Q31(x) is x * 2^31
\* with the fraction dropped (toward zero for either sign), and
\* Q31_TO_FLOAT of it is that whole number of 2^-31 units exactly, so it
\* differs from x by less than 2^-31.
C14_Q31RoundTrip ==
    pc = "converted" =>
        LET x == Q31Units(f32_in)
            y == Q31Units(f32_out)
        IN  /\ q31_val = x.whole
            /\ y.exact /\ y.whole = q31_val
            /\ WithinOneUnit(x, y.whole)
C14_Witness ==
    /\ pc = "converted"
    /\ f32_in.neg /\ ~Q31Units(f32_in).exact
    /\ q31_val < 0 /\ f32_out # f32_in

\* the console output and calls this step adds
Emitted ==
    IF Len(out') >= Len(out) /\ SubSeq(out', 1, Len(out)) = out
    THEN SubSeq(out', Len(out) + 1, Len(out'))
    ELSE out'
\* calls that start a CORDIC operation, and the call that fetches a result
CordicStarts ==
    {"Cy_CORDIC_ParkTransformNB", "Cy_CORDIC_Sin", "Cy_CORDIC_Cos", "Cy_CORDIC_Tan",
     "Cy_CORDIC_ArcTan", "Cy_CORDIC_Sinh", "Cy_CORDIC_Cosh", "Cy_CORDIC_Tanh",
     "Cy_CORDIC_ArcTanh", "Cy_CORDIC_Sqrt"}
CordicFetches == {"Cy_CORDIC_GetParkResult"}

\* C15: at most one CORDIC operation is in flight.  The block is busy only
\* while park_transform polls it; Cy_CORDIC_GetParkResult is called only in a
\* step that has observed Cy_CORDIC_IsBusy false, and no handler starts an
\* operation while the block is busy.
C15_OneOperationInFlight ==
    /\ [](cordic_busy => pc = "park_transform_poll")
    /\ [][\A j \in DOMAIN Emitted :
            (Emitted[j].ev = "call" /\ Emitted[j].text \in CordicStarts \cup CordicFetches)
                => ~cordic_busy]_vars
\* a second park transform has been run to its end after the first one
C15_Witness ==
    /\ pc = "menu"
    /\ iter = MaxIter
    /\ g0.cordic_function = Ifx_CORDIC_PARK_TRANS
    /\ \E j \in DOMAIN out : out[j].ev = "call" /\ out[j].text \in CordicFetches
    /\ ~cordic_busy

\* the values of the result printfs of this iteration, in order
PrintedResults ==
    LET IsResult(e) == /\ e.ev = "printf" /\ e.vals # <<>>
                       /\ e.text \notin {"PDL: CORDIC", "Selected option -"}
        picked == SelectSeq(out, IsResult)
    IN  [j \in DOMAIN picked |-> picked[j].vals]

\* What a handler prints as results, from the operand values v read in this
\* invocation alone: for each cast a build may resolve differently, one
\* sequence per outcome.
AngleResults(hw, sw, v) ==
    {<<Term(hw, <<q>>), Term(sw, <<DegToRad[v[1]]>>)>> : q \in DegToRadQ31[v[1]]}
ResultsOf(f, v) ==
    CASE f = Ifx_CORDIC_SINE -> {<< <<Q31_TO_FLOAT(r[1])>>, <<r[2]>> >> : r \in AngleResults("Cy_CORDIC_Sin", "sin", v)}
      [] f = Ifx_CORDIC_COSINE -> {<< <<Q31_TO_FLOAT(r[1])>>, <<r[2]>> >> : r \in AngleResults("Cy_CORDIC_Cos", "cos", v)}
      [] f = Ifx_CORDIC_TAN -> {<< <<Q20_11_TO_FLOAT(r[1])>>, <<r[2]>> >> : r \in AngleResults("Cy_CORDIC_Tan", "tan", v)}
      [] f = Ifx_CORDIC_HYP_SINE -> {<< <<Q1_30_TO_FLOAT(r[1])>>, <<r[2]>> >> : r \in AngleResults("Cy_CORDIC_Sinh", "sinh", v)}
      [] f = Ifx_CORDIC_HYP_COSINE -> {<< <<Q1_30_TO_FLOAT(r[1])>>, <<r[2]>> >> : r \in AngleResults("Cy_CORDIC_Cosh", "cosh", v)}
      [] f = Ifx_CORDIC_HYP_TAN -> {<< <<Q20_11_TO_FLOAT(r[1])>>, <<r[2]>> >> : r \in AngleResults("Cy_CORDIC_Tanh", "tanh", v)}
      [] f = Ifx_CORDIC_ARC_TAN ->
            {<< <<FLOAT_RAD_TO_DEG(Q31_TO_DEG_FLOAT(Term("Cy_CORDIC_ArcTan", <<d8, n8>>)))>>,
                <<FLOAT_RAD_TO_DEG(Term("atan2", <<Scaled[v[1]], Scaling>>))>> >> :
                n8 \in ToQ8_23[Scaled[v[1]]], d8 \in ToQ8_23[Scaling]}
      [] f = Ifx_CORDIC_HYP_ARC_TAN ->
            {<< <<FLOAT_RAD_TO_DEG(Q31_TO_DEG_FLOAT(Term("Cy_CORDIC_ArcTanh", <<d8, n8>>)))>>,
                <<FLOAT_RAD_TO_DEG(Term("atanh", <<v[1]>>))>> >> :
                n8 \in ToQ8_23[Scaled[v[1]]], d8 \in ToQ8_23[Scaling]}
      [] f = Ifx_CORDIC_SQRT ->
            {<< <<Q31_TO_FLOAT(Term("Cy_CORDIC_Sqrt", <<q>>))>>, <<Term("sqrt", <<v[1]>>)>> >> :
                q \in ToQ31[v[1]]}
      [] f = Ifx_CORDIC_PARK_TRANS ->
            {LET regs == <<q, a, b>>
                 rad == DegToRad[v[1]]
                 gain == Term("1/", <<CORDIC_CIRCULAR_GAIN>>)
                 sw == <<I32(a), I32(b), FLOAT_TO_Q31_OF(Term("sin", <<rad>>)),
                         FLOAT_TO_Q31_OF(Term("cos", <<rad>>))>>
             IN  << <<Term("*", <<Q23_TO_FLOAT(Term("parkTransformId", regs)), gain>>),
                      Term("*", <<Q23_TO_FLOAT(Term("parkTransformIq", regs)), gain>>)>>,
                    <<Q31_TO_FLOAT(Term("arm_park_q31.pId", sw)),
                      Q31_TO_FLOAT(Term("arm_park_q31.pIq", sw))>> >> :
                q \in DegToRadQ31[v[1]], a \in ToQ31[v[2]], b \in ToQ31[v[3]]}

\* C16: what a handler prints as results is determined by the operands read
\* in that invocation (and by what the CORDIC block and the math library
\* return for them): it is ResultsOf the selected function and the values
\* read, whatever the globals held when the handler was entered.  So two runs
\* that reach a handler with different histories and give it the same
\* operands print the same results.
C16_ResultsDependOnReadsOnly ==
    (pc = "menu" /\ PrintedResults # <<>>) =>
        PrintedResults \in ResultsOf(cordic_function, [i \in DOMAIN reads |-> reads[i].value])
\* results are printed by a handler entered with scratch variables left by a
\* different handler
C16_Witness ==
    /\ pc = "menu" /\ iter = MaxIter
    /\ PrintedResults # <<>>
    /\ cordic_function = Ifx_CORDIC_COSINE
    /\ g0.cordic_function = Ifx_CORDIC_SINE
    /\ g0.result_doub # Lit0
    /\ g0.angle_deg # angle_deg

\* the statements of main executed so far that are calls of fn
MainCalls(fn) == {i \in DOMAIN boot : boot[i].fn = fn}

\* C17: main calls Cy_CORDIC_Enable exactly once, and before it enters
\* run_cordic_functions: whenever the menu loop or a handler is running, one
\* call of Cy_CORDIC_Enable precedes the entry, and it is never called twice.
C17_EnabledOnceBeforeHandlers ==
    /\ Cardinality(MainCalls("Cy_CORDIC_Enable")) <= 1
    /\ (pc \notin {"main", "halted"} \/ out # <<>>) =>
         /\ Cardinality(MainCalls("Cy_CORDIC_Enable")) = 1
         /\ \A i \in MainCalls("Cy_CORDIC_Enable"), j \in MainCalls("run_cordic_functions") :
              i < j
         /\ MainCalls("run_cordic_functions") # {}
\* main has been followed from reset and a handler has used the CORDIC
C17_Witness ==
    /\ pc = "menu" /\ iter = MaxIter
    /\ MainCalls("run_cordic_functions") # {}
    /\ \A i \in DOMAIN boot : boot[i].status \in {CY_RSLT_SUCCESS, "void"}
    /\ \E j \in DOMAIN out : out[j].ev = "call" /\ out[j].text \in CordicStarts

\* the init steps of main that returned a status other than CY_RSLT_SUCCESS
FailedSteps == {i \in DOMAIN boot : boot[i].fn \in InitSteps /\ boot[i].status # CY_RSLT_SUCCESS}

\* C19: when an init step of main returns a status other than
\* CY_RSLT_SUCCESS, execution stops in the handle_error that follows: no
\* later statement of main is executed and run_cordic_functions is never
\* entered.  It fails: handle_error only evaluates CY_ASSERT(0), which in a
\* build with NDEBUG expands to nothing, so handle_error returns and main
\* carries on to the next init step and into the menu loop.
C19_FailedInitStops ==
    \A i \in FailedSteps :
        /\ Len(boot) <= i + 1
        /\ pc \in {"main", "halted"}
        /\ Len(boot) = i + 1 => pc = "halted"

\* the Cy_CORDIC_ArcTan and Cy_CORDIC_ArcTanh calls of this iteration
ArcCalls ==
    {j \in DOMAIN out : /\ out[j].ev = "call"
                        /\ out[j].text \in {"Cy_CORDIC_ArcTan", "Cy_CORDIC_ArcTanh"}}

\* C18: for every operand arc_tangent and hyperbolic_arc_tangent accept, the
\* operand scaled by 127.99 and converted by FLOAT_TO_Q8_23 fits int32_t, so
\* numerator_8q23 is the product with its fraction dropped, and
\* denominator_8q23 is one and the same strictly positive number.
\* It fails: a NaN operand passes check_range (see C1), its scaled value is a
\* NaN, and the cast of a NaN to int32_t is undefined.
C18_Q8_23FitsInt32 ==
    \A j \in ArcCalls :
        LET num == Q8Product[Scaled[reads[1].value]]
            den == Q8Product[Scaling]
        IN  /\ F32FitsI32(num) /\ out[j].vals[2] = F32Trunc(num)
            /\ F32FitsI32(den) /\ out[j].vals[1] = F32Trunc(den)
            /\ out[j].vals[1] > 0

\* the i-th operand of this invocation was read and lies within [lo, hi]
ReadWithin(i, lo, hi) ==
    /\ Len(reads) >= i
    /\ reads[i].status > 0
    /\ F32Le(Limit[lo], reads[i].value) /\ F32Le(reads[i].value, Limit[hi])
\* the i-th read returned no token, or its range check failed
ReadRejected(i) ==
    /\ Len(reads) >= i
    /\ (reads[i].status <= 0 \/ reads[i].ret = "CY_CORDIC_BAD_PARAM")
InParkTransform == \E j \in DOMAIN out : out[j] = Call("park_transform", <<>>)

\* C20: park_transform reads and validates the angle, alpha and beta in this
\* order and stops at the first failure.  The alpha prompt is printed only
\* after the angle was read and is within [-90, 90], the beta prompt only
\* after alpha was read and is within [-1, 1], Cy_CORDIC_ParkTransformNB is
\* called only after all three are; after a failed stage no further prompt
\* is printed and no further token is read.
\* It fails: a NaN angle (or alpha, or beta) passes check_range (see C1), so
\* the next prompt is printed, and the CORDIC block started, for an operand
\* that is not within its interval.
C20_ParkOperandsInOrder ==
    InParkTransform =>
        /\ Printed(PROMPT_ALPHA) => ReadWithin(1, IN_PARK_ANGLE_MIN, IN_PARK_ANGLE_MAX)
        /\ Printed(PROMPT_BETA) => (Printed(PROMPT_ALPHA) /\ ReadWithin(2, -1, 1))
        /\ Printed(PROMPT_BETA) =>
             \A j, k \in DOMAIN out :
                (out[j] = Printf(PROMPT_ALPHA, <<>>) /\ out[k] = Printf(PROMPT_BETA, <<>>))
                    => j < k
        /\ (\E j \in DOMAIN out : out[j].ev = "call" /\ out[j].text = "Cy_CORDIC_ParkTransformNB")
             => (Printed(PROMPT_BETA) /\ ReadWithin(3, -1, 1))
        /\ Len(reads) >= 2 => Printed(PROMPT_ALPHA)
        /\ Len(reads) >= 3 => Printed(PROMPT_BETA)
        /\ Len(reads) <= 3
        /\ \A i \in DOMAIN reads :
             ReadRejected(i) =>
                /\ Len(reads) = i
                /\ pc = "menu"
                /\ i < 2 => ~Printed(PROMPT_ALPHA)
                /\ i < 3 => ~Printed(PROMPT_BETA)
                /\ ExternalCalls = {}

\* the CORDIC primitive and the library function each handler uses
Accelerator ==
    [f \in Ifx_CORDIC_PARK_TRANS..Ifx_CORDIC_SQRT |->
        CASE f = Ifx_CORDIC_PARK_TRANS -> "Cy_CORDIC_ParkTransformNB"
          [] f = Ifx_CORDIC_SINE -> "Cy_CORDIC_Sin"
          [] f = Ifx_CORDIC_COSINE -> "Cy_CORDIC_Cos"
          [] f = Ifx_CORDIC_TAN -> "Cy_CORDIC_Tan"
          [] f = Ifx_CORDIC_ARC_TAN -> "Cy_CORDIC_ArcTan"
          [] f = Ifx_CORDIC_HYP_SINE -> "Cy_CORDIC_Sinh"
          [] f = Ifx_CORDIC_HYP_COSINE -> "Cy_CORDIC_Cosh"
          [] f = Ifx_CORDIC_HYP_TAN -> "Cy_CORDIC_Tanh"
          [] f = Ifx_CORDIC_HYP_ARC_TAN -> "Cy_CORDIC_ArcTanh"
          [] f = Ifx_CORDIC_SQRT -> "Cy_CORDIC_Sqrt"]
SoftwareReference ==
    [f \in Ifx_CORDIC_PARK_TRANS..Ifx_CORDIC_SQRT |->
        CASE f = Ifx_CORDIC_PARK_TRANS -> "arm_park_q31"
          [] f = Ifx_CORDIC_SINE -> "sin"
          [] f = Ifx_CORDIC_COSINE -> "cos"
          [] f = Ifx_CORDIC_TAN -> "tan"
          [] f = Ifx_CORDIC_ARC_TAN -> "atan2"
          [] f = Ifx_CORDIC_HYP_SINE -> "sinh"
          [] f = Ifx_CORDIC_HYP_COSINE -> "cosh"
          [] f = Ifx_CORDIC_HYP_TAN -> "tanh"
          [] f = Ifx_CORDIC_HYP_ARC_TAN -> "atanh"
          [] f = Ifx_CORDIC_SQRT -> "sqrt"]

\* a handler has run to its end and every operand it reads was read and
\* passed its checks (for square_root: check_range and 0 != number)
ValidInvocation ==
    /\ pc = "menu"
    /\ cordic_function \in DOMAIN Accelerator
    /\ Len(reads) = NOperands
    /\ \A i \in DOMAIN reads : reads[i].status > 0 /\ reads[i].ret = "CY_CORDIC_SUCCESS"
    /\ cordic_function = Ifx_CORDIC_SQRT => ~F32IsZero(reads[1].value)

\* what the software path may be computed from: the operands read, their
\* conversions, and library results on those
FromOperands ==
    LET v == {reads[i].value : i \in DOMAIN reads}
        rad == {DegToRad[x] : x \in v}
        lib == {Term(fn, <<r>>) : fn \in {"sin", "cos"}, r \in rad}
    IN  v \cup rad \cup {Scaled[x] : x \in v} \cup {Scaling}
          \cup {I32(q) : q \in UNION {ToQ31[x] : x \in v}}
          \cup {FLOAT_TO_Q31_OF(t) : t \in lib}

\* C21: a handler invocation whose operands all pass validation starts
\* exactly one CORDIC operation and makes exactly one software reference
\* computation (any other library call only supplies an argument of it),
\* prints a result after the CORDIC operation and before the reference is
\* computed, prints the reference result after that, and computes the
\* reference from the operands read, never from what the CORDIC block
\* returned; then it is back at the menu.
C21_OneAcceleratorOneReference ==
    ValidInvocation =>
        LET hw == {j \in ExternalCalls : out[j].text \in CordicStarts}
            sw == {j \in ExternalCalls : out[j].text \notin CordicStarts \cup CordicFetches}
            ref == {j \in sw : out[j].text = SoftwareReference[cordic_function]}
        IN  /\ Cardinality(hw) = 1
            /\ \A j \in hw : out[j].text = Accelerator[cordic_function]
            /\ Cardinality(ref) = 1
            /\ \A j \in sw \ ref, k \in ref :
                 /\ j < k
                 /\ \E a \in DOMAIN out[k].vals :
                      out[k].vals[a] = FLOAT_TO_Q31_OF(Term(out[j].text, out[j].vals))
            /\ \A j \in sw : \A a \in DOMAIN out[j].vals : out[j].vals[a] \in FromOperands
            /\ Cardinality(ResultPrints) = 2
            /\ \E p1, p2 \in ResultPrints :
                 /\ p1 < p2
                 /\ \A j \in hw : j < p1
                 /\ \A j \in sw : p1 < j /\ j < p2
\* a valid park transform, with its three library calls, has run to its end
C21_Witness ==
    /\ ValidInvocation
    /\ cordic_function = Ifx_CORDIC_PARK_TRANS
    /\ \A i \in DOMAIN reads : ~reads[i].value.nan
    /\ Cardinality(ExternalCalls) = 5
    /\ Cardinality(ResultPrints) = 2

\* the CORDIC calls that take an angle converted by FLOAT_DEG_TO_RAD_Q31
DegreeCalls ==
    {"Cy_CORDIC_ParkTransformNB", "Cy_CORDIC_Sin", "Cy_CORDIC_Cos", "Cy_CORDIC_Tan",
     "Cy_CORDIC_Sinh", "Cy_CORDIC_Cosh", "Cy_CORDIC_Tanh"}

\* d * 2^31 / 180 with the fraction dropped toward zero, for |d| <= 90:
\* 2^31 = 180 * k + r, so the quotient is d * k + (d * r) / 180
ExactDegQ31(neg, d) ==
    LET k == LLDiv(Q31_MULTIPLIER, 180).hi * TwoP16 + LLDiv(Q31_MULTIPLIER, 180).lo
        r == (INT32_MAX - 180 * k) + 1
        mag == d * k + (d * r) \div 180
    IN  IF neg THEN -mag ELSE mag

\* C22: for every whole number of degrees d a handler accepts (|d| <= 90),
\* the angle handed to the CORDIC block is d * 2^31 / 180 with the fraction
\* dropped toward zero, so that 90 and -90 degrees are 2^30 and -2^30.
\* It fails: the macro multiplies by Q31_MULTIPLIER/180, an integer division
\* that yields 11930464, and the product is rounded to float32_t before the
\* cast: 90 degrees become 1073741760, 64 short of 2^30.
C22_DegreesToQ31Exact ==
    \A j \in ExternalCalls :
        (/\ out[j].text \in DegreeCalls
         /\ reads[1].tok.kind = "num" /\ reads[1].tok.d = 1 /\ reads[1].tok.n <= 90) =>
            /\ out[j].vals[1] = ExactDegQ31(reads[1].tok.neg, reads[1].tok.n)
            /\ reads[1].tok.n = 90 =>
                 out[j].vals[1] = (IF reads[1].tok.neg THEN -Pow2(30) ELSE Pow2(30))

====
